---- MODULE Spec2Model ----
(***************************************************************************)
(* Model of the KV-cache scheduling engine of the prefill simulator:       *)
(* the eviction policies (FIFO / LRU / LFU), the node selectors and the    *)
(* per-request pipeline BasicPrefillProcessor.ProcessRequest.              *)
(*                                                                         *)
(* Memory is counted in units of one block's memory (blockMemoryMB =       *)
(* 512*2*4/(1024*1024) MB = 1/256 MB, exact in float64), so UsedMemoryMB   *)
(* is an integer number of units and MaxMemoryMB is BlocksPerMB units per  *)
(* MB.                                                                     *)
(***************************************************************************)
EXTENDS Integers, Sequences, FiniteSets, TLC

\* ------------------------------------------------------------------ bounds

\* Number of ProcessRequest calls explored from the initial state.
MaxRequests == 4
\* Number of policy operations explored by the policy harness.
MaxOps == 6
\* Blocks per MB of node memory. The source value is 256 (1/blockMemoryMB);
\* it is scaled down so that memory pressure is reached within MaxRequests.
BlocksPerMB == 2
\* Ceiling of the LFU min-frequency scan. The source value is 1000; it is
\* scaled down so that frequencies above it are reached within the bounds.
FreqCeiling == 2
\* HotspotMigrationSelector.MigrationInterval. The source value is 100; it
\* is scaled down so that a migration check is reached within MaxRequests.
MigrationInterval == 2

\* ------------------------------------------------------------------ helpers

Absent == -1

Put(f, k, v) == [x \in (DOMAIN f) \cup {k} |-> IF x = k THEN v ELSE f[x]]

Drop(f, k) == [x \in (DOMAIN f) \ {k} |-> f[x]]

RemoveAt(s, i) == SubSeq(s, 1, i - 1) \o SubSeq(s, i + 1, Len(s))

EmptyFun == [x \in {} |-> 0]

min(a, b) == IF a < b THEN a ELSE b

\* A list element of container/list: the block ID it carries, and whether the
\* policy's map (orderNodes / blockNodes) points at this very element. A Go
\* map holds at most one element per ID, so at most one element per ID is
\* marked; an unmarked element is one the map no longer reaches.
Elem(id, marked) == [id |-> id, m |-> marked]

\* delete(orderNodes, id) / overwriting orderNodes[id]: no element of ID id is
\* reachable through the map any more.
Unmark(order, id) ==
    [i \in 1..Len(order) |->
        IF order[i].id = id THEN Elem(id, FALSE) ELSE order[i]]

HasMarked(order, id) == \E i \in 1..Len(order) : order[i] = Elem(id, TRUE)

MarkedPos(order, id) == CHOOSE i \in 1..Len(order) : order[i] = Elem(id, TRUE)

ListIDs(order) == {order[i].id : i \in 1..Len(order)}

\* ------------------------------------------------------------------ policies

NewFIFOEviction ==
    [kind |-> "FIFO", order |-> <<>>, freqGroups |-> EmptyFun,
     blockFreq |-> EmptyFun, minFreq |-> 1]

NewLRUEviction ==
    [kind |-> "LRU", order |-> <<>>, freqGroups |-> EmptyFun,
     blockFreq |-> EmptyFun, minFreq |-> 1]

NewLFUEviction ==
    [kind |-> "LFU", order |-> <<>>, freqGroups |-> EmptyFun,
     blockFreq |-> EmptyFun, minFreq |-> 1]

\* FIFO: the head of insertOrder leaves; its ID leaves orderNodes.
FIFOEvict(p) ==
    IF Len(p.order) = 0
    THEN [p |-> p, id |-> Absent]
    ELSE LET blockID == p.order[1].id
         IN  [p |-> [p EXCEPT !.order = Unmark(Tail(p.order), blockID)],
              id |-> blockID]

FIFOOnAdd(p, blockID) ==
    [p EXCEPT !.order = Append(Unmark(p.order, blockID), Elem(blockID, TRUE))]

\* FIFO ignores accesses: only block.HitCount++.
FIFOUpdateOnAccess(p, block) ==
    [p |-> p, block |-> [block EXCEPT !.HitCount = @ + 1]]

\* An LRU Evict that takes the head of accessOrder, the most recent entry.
LRUEvictFront(p) ==
    IF Len(p.order) = 0
    THEN [p |-> p, id |-> Absent]
    ELSE LET blockID == p.order[1].id
         IN  [p |-> [p EXCEPT !.order = Unmark(Tail(p.order), blockID)],
              id |-> blockID]

\* LRU: head = most recent, tail = least recent.
LRUEvict(p) ==
    IF Len(p.order) = 0
    THEN [p |-> p, id |-> Absent]
    ELSE LET n == Len(p.order)
             blockID == p.order[n].id
         IN  [p |-> [p EXCEPT !.order = Unmark(SubSeq(p.order, 1, n - 1), blockID)],
              id |-> blockID]

LRUUpdateOnAccess(p, block) ==
    LET blockID == block.HashID
        q == IF HasMarked(p.order, blockID)
             THEN LET i == MarkedPos(p.order, blockID)
                  IN  [p EXCEPT !.order = <<Elem(blockID, TRUE)>> \o RemoveAt(p.order, i)]
             ELSE p
    IN  [p |-> q, block |-> [block EXCEPT !.HitCount = @ + 1]]

LRUOnAdd(p, blockID) ==
    [p EXCEPT !.order = <<Elem(blockID, TRUE)>> \o Unmark(p.order, blockID)]

\* LFU: freqGroups maps a frequency to its list; a nil list and an empty list
\* are never told apart by the code, so only non-empty lists are kept.
GroupAt(p, freq) == IF freq \in DOMAIN p.freqGroups THEN p.freqGroups[freq] ELSE <<>>

SetGroup(groups, freq, lst) ==
    IF Len(lst) = 0 THEN Drop(groups, freq) ELSE Put(groups, freq, lst)

UnmarkAll(groups, id) == [f \in DOMAIN groups |-> Unmark(groups[f], id)]

HasBlockNode(p, id) == \E f \in DOMAIN p.freqGroups : HasMarked(p.freqGroups[f], id)

addToFreqGroup(p, blockID, freq) ==
    LET cleared == UnmarkAll(p.freqGroups, blockID)
        lst == IF freq \in DOMAIN cleared THEN cleared[freq] ELSE <<>>
    IN  [p EXCEPT !.freqGroups = Put(cleared, freq, Append(lst, Elem(blockID, TRUE)))]

\* list.Remove(e) removes e only from the list e belongs to; blockNodes loses
\* the ID in either case.
removeFromFreqGroup(p, blockID, freq) ==
    IF HasBlockNode(p, blockID)
    THEN LET lst == GroupAt(p, freq)
         IN  IF HasMarked(lst, blockID)
             THEN [p EXCEPT !.freqGroups =
                      SetGroup(p.freqGroups, freq, RemoveAt(lst, MarkedPos(lst, blockID)))]
             ELSE [p EXCEPT !.freqGroups = UnmarkAll(p.freqGroups, blockID)]
    ELSE p

removeBlock(p, blockID) ==
    LET freq == IF blockID \in DOMAIN p.blockFreq THEN p.blockFreq[blockID] ELSE 0
        q == removeFromFreqGroup(p, blockID, freq)
    IN  [q EXCEPT !.blockFreq = Drop(q.blockFreq, blockID)]

\* minFreq++, then scan upwards over empty groups; past the ceiling the scan
\* gives up and resets minFreq to 1.
updateMinFreq(p) ==
    LET start == p.minFreq + 1
        found == {f \in DOMAIN p.freqGroups : f > start /\ f <= FreqCeiling}
    IN  IF Len(GroupAt(p, start)) > 0 THEN [p EXCEPT !.minFreq = start]
        ELSE IF found # {}
             THEN [p EXCEPT !.minFreq = CHOOSE f \in found : \A g \in found : f <= g]
             ELSE [p EXCEPT !.minFreq = 1]

LFUEvict(p) ==
    IF DOMAIN p.blockFreq = {}
    THEN [p |-> p, id |-> Absent]
    ELSE LET q == IF Len(GroupAt(p, p.minFreq)) = 0 THEN updateMinFreq(p) ELSE p
             minFreqList == GroupAt(q, q.minFreq)
         IN  IF Len(minFreqList) > 0
             THEN [p |-> removeBlock(q, minFreqList[1].id), id |-> minFreqList[1].id]
             ELSE [p |-> q, id |-> Absent]

LFUUpdateOnAccess(p, block) ==
    LET blockID == block.HashID
        oldFreq == IF blockID \in DOMAIN p.blockFreq THEN p.blockFreq[blockID] ELSE 0
        newFreq == oldFreq + 1
        p1 == IF oldFreq > 0 THEN removeFromFreqGroup(p, blockID, oldFreq) ELSE p
        p2 == addToFreqGroup(p1, blockID, newFreq)
        p3 == [p2 EXCEPT !.blockFreq = Put(p2.blockFreq, blockID, newFreq)]
        q == IF oldFreq = p3.minFreq /\ Len(GroupAt(p3, oldFreq)) = 0
             THEN [p3 EXCEPT !.minFreq = newFreq]
             ELSE p3
    IN  [p |-> q, block |-> [block EXCEPT !.HitCount = @ + 1]]

LFUOnAdd(p, blockID) ==
    LET q == addToFreqGroup(p, blockID, 1)
    IN  [q EXCEPT !.blockFreq = Put(q.blockFreq, blockID, 1), !.minFreq = 1]

\* The EvictionAlgorithm interface: dispatch on the dynamic type.
Evict(p) ==
    CASE p.kind = "FIFO" -> FIFOEvict(p)
      [] p.kind = "LRU" -> LRUEvict(p)
      [] p.kind = "LFU" -> LFUEvict(p)

UpdateOnAccess(p, block) ==
    CASE p.kind = "FIFO" -> FIFOUpdateOnAccess(p, block)
      [] p.kind = "LRU" -> LRUUpdateOnAccess(p, block)
      [] p.kind = "LFU" -> LFUUpdateOnAccess(p, block)

OnAdd(p, blockID) ==
    CASE p.kind = "FIFO" -> FIFOOnAdd(p, blockID)
      [] p.kind = "LRU" -> LRUOnAdd(p, blockID)
      [] p.kind = "LFU" -> LFUOnAdd(p, blockID)

NewPolicy(kind) ==
    CASE kind = "FIFO" -> NewFIFOEviction
      [] kind = "LRU" -> NewLRUEviction
      [] kind = "LFU" -> NewLFUEviction

PolicyKinds == {"FIFO", "LRU", "LFU"}

\* The block IDs the policy's structures hold, one per list element.
PolicyElems(p) ==
    IF p.kind = "LFU"
    THEN UNION {{<<f, i>> : i \in 1..Len(p.freqGroups[f])} : f \in DOMAIN p.freqGroups}
    ELSE {<<0, i>> : i \in 1..Len(p.order)}

PolicyElemID(p, e) == IF p.kind = "LFU" THEN p.freqGroups[e[1]][e[2]].id ELSE p.order[e[2]].id

PolicyIDs(p) ==
    IF p.kind = "LFU"
    THEN {PolicyElemID(p, e) : e \in PolicyElems(p)} \cup DOMAIN p.blockFreq
    ELSE ListIDs(p.order)

\* ------------------------------------------------------------------ rationals

RECURSIVE GCD(_, _)
GCD(a, b) == IF b = 0 THEN a ELSE GCD(b, a % b)

Abs(x) == IF x < 0 THEN 0 - x ELSE x

\* float64 scores are modelled as exact fractions n/d in lowest terms, d > 0.
Rat(n, d) ==
    LET g == GCD(Abs(n), Abs(d))
    IN  IF g = 0 THEN [n |-> 0, d |-> 1]
        ELSE IF d < 0 THEN [n |-> (0 - n) \div g, d |-> (0 - d) \div g]
        ELSE [n |-> n \div g, d |-> d \div g]

RAdd(a, b) == Rat(a.n * b.d + b.n * a.d, a.d * b.d)

RSub(a, b) == Rat(a.n * b.d - b.n * a.d, a.d * b.d)

RMul(a, b) == Rat(a.n * b.n, a.d * b.d)

\* a / b for b > 0
RDiv(a, b) == Rat(a.n * b.d, a.d * b.n)

RLess(a, b) == a.n * b.d < b.n * a.d

RInt(k) == Rat(k, 1)

\* ------------------------------------------------------------------ data model

\* NewSimulator's node IDs, fmt.Sprintf("node-%d", i)
NodeNames == <<"node-0", "node-1", "node-2", "node-3">>

\* The node list of a simulator of nodeCount nodes
NodeListOf(nodeCount) == SubSeq(NodeNames, 1, nodeCount)

IDsOf(nl) == {nl[i] : i \in 1..Len(nl)}

\* Cluster sizes explored by the pipeline specification.
ClusterSizes == {2}

Nil == "nil"

\* The request stream: ordered block-ID lists.
Requests == {<<2>>, <<0, 1>>, <<0, 1, 2>>}

SelectorKinds ==
    {"Random", "LoadBalanced", "CacheAware", "Enhanced", "HotspotMigration", "PrefixAware"}

\* Block{HashID, Size: 512, HitCount, AccessSeq, CreateSeq}
Block(hashID, hit, seq) ==
    [HashID |-> hashID, HitCount |-> hit, AccessSeq |-> seq, CreateSeq |-> seq]

\* NewSimulator's node: empty cache, empty queue, fresh policy, no metrics.
NewNode(maxCache, maxMem, kind) ==
    [blocks |-> EmptyFun,
     MaxCacheSize |-> maxCache,
     MaxMemoryMB |-> maxMem,
     used |-> 0,
     TotalHits |-> 0,
     TotalMisses |-> 0,
     ev |-> NewPolicy(kind),
     queue |-> <<>>,
     seqCounter |-> 0,
     metrics |-> [attached |-> FALSE, PrefixPatterns |-> EmptyFun,
                 ReplicationFactor |-> EmptyFun, MigrationHistory |-> <<>>]]

\* float64(MaxMemoryMB) in units of one block's memory.
MemUnits(node) == node.MaxMemoryMB * BlocksPerMB

Cached(node) == DOMAIN node.blocks

\* Positions of the request whose ID is in the node's block map.
HitCountOf(request, node) ==
    Cardinality({i \in 1..Len(request) : request[i] \in Cached(node)})

\* ------------------------------------------------------------------ processor

VARIABLES
    simNodes,   \* Simulator.nodes: the node list, as node IDs
    nodes,      \* node ID -> PrefillNode
    sel,        \* the selector's internal state
    stats,      \* BasicPrefillProcessor.stats
    nodeStats,  \* BasicPrefillProcessor.nodeStatsMap
    last,       \* observation of the last ProcessRequest call
    short,      \* node ID -> how the node's most recent miss left the reclaim loop
    calls,      \* number of ProcessRequest calls made
    offered,    \* sum of len(hash_ids) over the calls that returned a result
    hp,         \* policy harness: the policy under test
    hb,         \* policy harness: the caller's block map (ID -> HitCount)
    ho,         \* policy harness: reference bookkeeping
    hlast,      \* policy harness: observation of the last operation
    run,        \* one node's miss path, statement by statement
    app         \* one call of a function on its own: the call's inputs and result

vars ==
    <<simNodes, nodes, sel, stats, nodeStats, last, short, calls, offered, hp, hb, ho, hlast,
      run, app>>

procVars == <<simNodes, nodes, sel, stats, nodeStats, last, short, calls, offered, run, app>>

harnessVars == <<hp, hb, ho, hlast>>

NewNodeStatistics == [TotalRequests |-> 0, TotalHits |-> 0, TotalMisses |-> 0, EvictedBlocks |-> 0]

\* A reclaim loop that asks whether memory is already overdrawn instead of
\* whether the new block fits.
RECURSIVE ReclaimLoopLate(_)
ReclaimLoopLate(st) ==
    IF MemUnits(st.node) - st.node.used < 0 /\ Cached(st.node) # {}
    THEN LET r == Evict(st.node.ev)
         IN  IF r.id = Absent
             THEN [st EXCEPT !.node.ev = r.p, !.exhausted = TRUE]
             ELSE ReclaimLoopLate([st EXCEPT !.node.ev = r.p,
                                             !.node.blocks = Drop(@, r.id),
                                             !.node.used = @ - 1,
                                             !.evicted = @ + 1])
    ELSE st

\* The memory-reclaim loop of a miss. st = [node, evicted, exhausted].
RECURSIVE ReclaimLoop(_)
ReclaimLoop(st) ==
    IF MemUnits(st.node) - st.node.used < 1 /\ Cached(st.node) # {}
    THEN LET r == Evict(st.node.ev)
         IN  IF r.id = Absent
             THEN [st EXCEPT !.node.ev = r.p, !.exhausted = TRUE]
             ELSE ReclaimLoop([st EXCEPT !.node.ev = r.p,
                                         !.node.blocks = Drop(@, r.id),
                                         !.node.used = @ - 1,
                                         !.evicted = @ + 1])
    ELSE st

\* A hit that forgets the node's own hit counter.
HitBlockNodeUncounted(w, hashID) ==
    LET u == UpdateOnAccess(w.node.ev, w.node.blocks[hashID])
    IN  [w EXCEPT !.hits = @ + 1,
                  !.node.blocks[hashID] = u.block,
                  !.node.ev = u.p]

\* A hit that charges the block's memory again.
HitBlockRecharged(w, hashID) ==
    LET u == UpdateOnAccess(w.node.ev, w.node.blocks[hashID])
    IN  [w EXCEPT !.hits = @ + 1,
                  !.node.TotalHits = @ + 1,
                  !.node.used = @ + 1,
                  !.node.blocks[hashID] = u.block,
                  !.node.ev = u.p]

\* One block of the request on the selected node.
\* w = [node, evicted, hits, misses, exhausted, survived, short]
HitBlock(w, hashID) ==
    LET u == UpdateOnAccess(w.node.ev, w.node.blocks[hashID])
    IN  [w EXCEPT !.hits = @ + 1,
                  !.node.TotalHits = @ + 1,
                  !.node.blocks[hashID] = u.block,
                  !.node.ev = u.p]

\* An admission that refuses the block when the node still holds blocks and has
\* no room for it, as after the policy gave up.
AdmitBlockIfRoom(node, hashID) ==
    IF MemUnits(node) - node.used < 1 /\ Cached(node) # {} THEN node
    ELSE LET seq == node.seqCounter + 1
         IN  [node EXCEPT !.seqCounter = seq,
                          !.blocks = Put(@, hashID, Block(hashID, 1, seq)),
                          !.used = @ + 1,
                          !.ev = OnAdd(@, hashID)]

\* An admission that never tells the policy.
AdmitBlockUntold(node, hashID) ==
    LET seq == node.seqCounter + 1
    IN  [node EXCEPT !.seqCounter = seq,
                     !.blocks = Put(@, hashID, Block(hashID, 1, seq)),
                     !.used = @ + 1]

\* "添加新block": the new block enters the map with fresh sequence numbers,
\* its memory is added and the policy is told.
AdmitBlock(node, hashID) ==
    LET seq == node.seqCounter + 1
    IN  [node EXCEPT !.seqCounter = seq,
                     !.blocks = Put(@, hashID, Block(hashID, 1, seq)),
                     !.used = @ + 1,
                     !.ev = OnAdd(@, hashID)]

\* The walk after a miss: r is the reclaim loop's outcome, n2 the node with the
\* block admitted. survived records that every miss of the call whose reclaim
\* loop met the sentinel still admitted its block: in the map, known to the
\* policy, its memory added. short records how the reclaim loop ended.
MissOutcome(w, hashID, r, n2) ==
    [w EXCEPT !.node = n2,
              !.misses = @ + 1,
              !.evicted = r.evicted,
              !.exhausted = @ \/ r.exhausted,
              !.survived = @ /\ (r.exhausted =>
                                    /\ hashID \in Cached(n2)
                                    /\ hashID \in PolicyIDs(n2.ev)
                                    /\ n2.used = r.node.used + 1
                                    /\ n2.TotalMisses = w.node.TotalMisses + 1),
              !.short = IF r.exhausted THEN "exhausted"
                        ELSE IF MemUnits(r.node) - r.node.used >= 1 THEN "none"
                        ELSE IF Cached(r.node) = {} THEN "empty"
                        ELSE "pressure"]

\* A miss after the reclaim loop: admit the block, whatever the loop achieved.
MissAdmit(w, hashID, r) == MissOutcome(w, hashID, r, AdmitBlock(r.node, hashID))

\* A miss: count it, reclaim memory, admit the block.
MissBlock(w, hashID) ==
    MissAdmit(w, hashID,
              ReclaimLoop([node |-> [w.node EXCEPT !.TotalMisses = @ + 1],
                           evicted |-> w.evicted, exhausted |-> FALSE]))

RECURSIVE WalkBlocks(_, _, _)
WalkBlocks(w, request, i) ==
    IF i > Len(request) THEN w
    ELSE WalkBlocks(IF request[i] \in Cached(w.node)
                    THEN HitBlock(w, request[i])
                    ELSE MissBlock(w, request[i]),
                    request, i + 1)

\* RequestQueue: append, keep the last QueueCap entries.
QueueCap == 100

\* Enqueue keeping the oldest 100 requests instead of the latest.
EnqueueKeepOldest(queue, request) ==
    LET q == Append(queue, request)
    IN  IF Len(q) > QueueCap THEN SubSeq(q, 1, QueueCap) ELSE q

Enqueue(queue, request) ==
    LET q == Append(queue, request)
    IN  IF Len(q) > QueueCap THEN SubSeq(q, Len(q) - QueueCap + 1, Len(q)) ELSE q

\* ------------------------------------------------------------------ selectors

\* SelectNode's outcome: the cluster and selector state it leaves, the node it returns.
Outcome(c, s, selected) == [nodes |-> c, sel |-> s, selected |-> selected]

\* The first position of the list whose score no later or earlier one beats:
\* "best := first; if score > bestScore then best := node".
\* A scan that lets a later node of equal score replace the best one.
LastBest(scores) ==
    CHOOSE i \in 1..Len(scores) :
        /\ \A j \in 1..Len(scores) : ~RLess(scores[i], scores[j])
        /\ \A j \in (i + 1)..Len(scores) : RLess(scores[j], scores[i])

FirstBest(scores) ==
    CHOOSE i \in 1..Len(scores) :
        /\ \A j \in 1..Len(scores) : ~RLess(scores[i], scores[j])
        /\ \A j \in 1..(i - 1) : RLess(scores[j], scores[i])

\* RandomNodeSelector: nodes[rand.Intn(len(nodes))].
RandomSelect(c, s, request, nl) ==
    IF Len(nl) = 0 THEN {Outcome(c, s, Nil)}
    ELSE {Outcome(c, s, nl[i]) : i \in 1..Len(nl)}

\* LoadBalancedSelector: shortest request queue, ties by input order.
LoadBalancedSelect(c, s, request, nl) ==
    IF Len(nl) = 0 THEN {Outcome(c, s, Nil)}
    ELSE LET Score(i) == RInt(0 - Len(c[nl[i]].queue))
         IN  {Outcome(c, s, nl[FirstBest([i \in 1..Len(nl) |-> Score(i)])])}

\* A cache-aware score that counts hits and never looks at the queue.
CacheAwareScoreHitsOnly(request, node) == RInt(HitCountOf(request, node))

\* A cache-aware score that subtracts the load without the factor 10.
CacheAwareScoreUnweighted(request, node) ==
    RSub(RInt(HitCountOf(request, node)), Rat(Len(node.queue), 100))

\* CacheAwareSelector: hitCount - load*10 with load = len(queue)/100.
CacheAwareScore(request, node) ==
    RSub(RInt(HitCountOf(request, node)), RMul(Rat(Len(node.queue), 100), RInt(10)))

CacheAwareSelect(c, s, request, nl) ==
    IF Len(nl) = 0 THEN {Outcome(c, s, Nil)}
    ELSE LET Score(i) == CacheAwareScore(request, c[nl[i]])
         IN  {Outcome(c, s, nl[FirstBest([i \in 1..Len(nl) |-> Score(i)])])}

\* EnhancedCacheAwareSelector(0.6, 0.8)
EnhancedAlpha == Rat(6, 10)

EnhancedBeta == Rat(8, 10)

RECURSIVE SumQueues(_, _, _)
SumQueues(c, nl, i) ==
    IF i > Len(nl) THEN 0 ELSE Len(c[nl[i]].queue) + SumQueues(c, nl, i + 1)

\* An enhanced score that subtracts the raw load, never divided by the average.
EnhancedCalculateScoreRaw(e, request, node, c, nl) ==
    LET hitRatio == Rat(HitCountOf(request, node), Len(request))
        currentLoad == Rat(Len(node.queue), 100)
    IN  RSub(RMul(e.Alpha, hitRatio), RMul(e.Beta, currentLoad))

\* An enhanced score with the default weights, whatever the selector was built with.
EnhancedCalculateScoreFixedWeights(e, request, node, c, nl) ==
    LET hitRatio == Rat(HitCountOf(request, node), Len(request))
        currentLoad == Rat(Len(node.queue), 100)
        totalQ == SumQueues(c, nl, 1)
        avgLoad == Rat(totalQ, 100 * Len(nl))
        normalizedLoad == IF totalQ > 0 THEN RDiv(currentLoad, avgLoad) ELSE currentLoad
    IN  RSub(RMul(EnhancedAlpha, hitRatio), RMul(EnhancedBeta, normalizedLoad))

\* e is the selector: its Alpha and Beta are the weights.
EnhancedCalculateScore(e, request, node, c, nl) ==
    LET hitRatio == Rat(HitCountOf(request, node), Len(request))
        currentLoad == Rat(Len(node.queue), 100)
        totalQ == SumQueues(c, nl, 1)
        avgLoad == Rat(totalQ, 100 * Len(nl))
        normalizedLoad == IF totalQ > 0 THEN RDiv(currentLoad, avgLoad) ELSE currentLoad
    IN  RSub(RMul(e.Alpha, hitRatio), RMul(e.Beta, normalizedLoad))

EnhancedSelect(c, s, request, nl) ==
    IF Len(nl) = 0 THEN {Outcome(c, s, Nil)}
    ELSE LET Score(i) == EnhancedCalculateScore(s, request, c[nl[i]], c, nl)
         IN  {Outcome(c, s, nl[FirstBest([i \in 1..Len(nl) |-> Score(i)])])}

\* ------------------------------------------------------------------ hot-spot migration

\* NewHotspotMigrationSelector(0.6, 0.8, 0.7, 0.1)
MigAlpha == Rat(6, 10)

MigBeta == Rat(8, 10)

MigrationThreshold == Rat(7, 10)

MigHotspotThreshold == Rat(1, 10)

RECURSIVE SumBlocks(_, _, _)
SumBlocks(c, nl, i) ==
    IF i > Len(nl) THEN 0 ELSE Cardinality(Cached(c[nl[i]])) + SumBlocks(c, nl, i + 1)

RECURSIVE GlobalHits(_, _, _, _)
GlobalHits(c, nl, i, hashID) ==
    IF i > Len(nl) THEN 0
    ELSE (IF hashID \in Cached(c[nl[i]]) THEN c[nl[i]].blocks[hashID].HitCount ELSE 0)
         + GlobalHits(c, nl, i + 1, hashID)

\* One NodeConcentration per node, in input order.
analyzeConcentration(c, nl, requestCounter) ==
    LET totalBlocks == SumBlocks(c, nl, 1)
        IsHot(hashID) ==
            RLess(MigHotspotThreshold, Rat(GlobalHits(c, nl, 1, hashID), requestCounter))
    IN  [i \in 1..Len(nl) |->
            [NodeId |-> nl[i],
             BlockCount |-> Cardinality(Cached(c[nl[i]])),
             HotBlockCount |-> Cardinality({h \in Cached(c[nl[i]]) : IsHot(h)}),
             ConcentrationRatio |->
                 IF totalBlocks > 0
                 THEN Rat(Cardinality(Cached(c[nl[i]])), totalBlocks)
                 ELSE Rat(0, 1)]]

MigCalculateScore(request, i, c, nl, requestCounter) ==
    LET node == c[nl[i]]
        hitRatio == Rat(HitCountOf(request, node), Len(request))
        currentLoad == Rat(Len(node.queue), node.MaxCacheSize)
        concentrations == analyzeConcentration(c, nl, requestCounter)
        k == CHOOSE j \in 1..Len(nl) : concentrations[j].NodeId = nl[i]
             /\ \A l \in 1..(j - 1) : concentrations[l].NodeId # nl[i]
        ratio == concentrations[k].ConcentrationRatio
        concentrationPenalty ==
            IF RLess(MigrationThreshold, ratio)
            THEN RMul(RSub(ratio, MigrationThreshold), RInt(2))
            ELSE Rat(0, 1)
    IN  RSub(RSub(RMul(MigAlpha, hitRatio), RMul(MigBeta, currentLoad)), concentrationPenalty)

selectNodeWithHotspotAwareness(request, c, nl, requestCounter) ==
    LET Score(i) == MigCalculateScore(request, i, c, nl, requestCounter)
    IN  nl[FirstBest([i \in 1..Len(nl) |-> Score(i)])]

\* The comparison handed to sort.Slice: by concentration ratio, descending or ascending.
ConcBefore(a, b, descending) ==
    IF descending THEN RLess(b.ConcentrationRatio, a.ConcentrationRatio)
    ELSE RLess(a.ConcentrationRatio, b.ConcentrationRatio)

\* Stable insertion of x into a list already in order.
RECURSIVE InsertSorted(_, _, _)
InsertSorted(s, x, descending) ==
    IF Len(s) = 0 THEN <<x>>
    ELSE IF ConcBefore(x, s[Len(s)], descending)
         THEN Append(InsertSorted(SubSeq(s, 1, Len(s) - 1), x, descending), s[Len(s)])
         ELSE Append(s, x)

\* sort.Slice on a short slice (insertion sort: equal elements keep their order).
RECURSIVE SortSlice(_, _)
SortSlice(s, descending) ==
    IF Len(s) <= 1 THEN s
    ELSE InsertSorted(SortSlice(SubSeq(s, 1, Len(s) - 1), descending), s[Len(s)], descending)

SelectSeq2(s, keep) ==
    LET F[i \in 0..Len(s)] ==
            IF i = 0 THEN <<>>
            ELSE IF keep[i] THEN Append(F[i - 1], s[i]) ELSE F[i - 1]
    IN  F[Len(s)]

\* A migrateCount of 20% rounded up.
MigrateCountCeil(n) == min(n, IF (n + 4) \div 5 > 1 THEN (n + 4) \div 5 ELSE 1)

\* int(math.Max(1, float64(len(blocks))*0.2)), at most len(blocks)
MigrateCount(n) == min(n, IF n \div 5 > 1 THEN n \div 5 ELSE 1)

\* The first count IDs of the orderings of the block IDs that put lower hit
\* counts first; blocks of equal hit count come in map-iteration order, which is
\* any order.
RECURSIVE HitOrders(_, _, _)
HitOrders(blocks, ids, count) ==
    IF ids = {} \/ count = 0 THEN {<<>>}
    ELSE LET lowest == {h \in ids : \A g \in ids : blocks[h].HitCount <= blocks[g].HitCount}
         IN  UNION {{<<h>> \o rest : rest \in HitOrders(blocks, ids \ {h}, count - 1)}
                    : h \in lowest}

\* The possible results of selectBlocksForMigration(node, 0.2).
selectBlocksForMigration(node) ==
    IF Cached(node) = {} THEN {<<>>}
    ELSE HitOrders(node.blocks, Cached(node), MigrateCount(Cardinality(Cached(node))))

\* A migrateBlocks that leaves the migrated blocks on the source as well.
RECURSIVE migrateBlocksCopy(_, _, _, _)
migrateBlocksCopy(src, tgt, blockIDs, i) ==
    IF i > Len(blockIDs) THEN {<<src, tgt>>}
    ELSE LET hashID == blockIDs[i]
         IN  IF hashID \in Cached(src)
             THEN LET t1 == [tgt EXCEPT !.blocks = Put(@, hashID, src.blocks[hashID])]
                      after == IF Cardinality(Cached(t1)) > t1.MaxCacheSize
                               THEN {[t1 EXCEPT !.blocks = Drop(@, id)] : id \in Cached(t1)}
                               ELSE {t1}
                  IN  UNION {migrateBlocksCopy(src, t2, blockIDs, i + 1) : t2 \in after}
             ELSE migrateBlocksCopy(src, tgt, blockIDs, i + 1)

\* migrateBlocks: the pairs <<source, target>> it can leave. The block record
\* moves as it is; when the target is over MaxCacheSize one block of the
\* target, whichever the map iteration yields first, is deleted.
RECURSIVE migrateBlocks(_, _, _, _)
migrateBlocks(src, tgt, blockIDs, i) ==
    IF i > Len(blockIDs) THEN {<<src, tgt>>}
    ELSE LET hashID == blockIDs[i]
         IN  IF hashID \in Cached(src)
             THEN LET s1 == [src EXCEPT !.blocks = Drop(@, hashID)]
                      t1 == [tgt EXCEPT !.blocks = Put(@, hashID, src.blocks[hashID])]
                      after == IF Cardinality(Cached(t1)) > t1.MaxCacheSize
                               THEN {[t1 EXCEPT !.blocks = Drop(@, id)] : id \in Cached(t1)}
                               ELSE {t1}
                  IN  UNION {migrateBlocks(s1, t2, blockIDs, i + 1) : t2 \in after}
             ELSE migrateBlocks(src, tgt, blockIDs, i + 1)

\* A history that takes the new record at its head.
PrependRecord(history, record) == <<record>> \o history

\* h.migrationHistory = append(h.migrationHistory, record)
AppendRecord(history, record) == Append(history, record)

MigrationRecord(requestId, source, target, blockIDs, ratio) ==
    [RequestId |-> requestId, SourceNode |-> source, TargetNode |-> target,
     MigratedBlocks |-> blockIDs, Ratio |-> ratio]

\* performMigration from the i-th overloaded node on; m = [nodes, history].
RECURSIVE performMigration(_, _, _, _, _)
performMigration(m, over, under, i, requestCounter) ==
    IF i > Len(over) \/ Len(under) = 0 THEN {m}
    ELSE LET source == over[i].NodeId
             target == under[1].NodeId
             rest == IF Len(under) > 1 THEN Tail(under) ELSE under
             moved ==
                 UNION {
                     IF Len(ids) > 0
                     THEN {[nodes |-> [m.nodes EXCEPT ![source] = pair[1], ![target] = pair[2]],
                            history |-> AppendRecord(m.history,
                                MigrationRecord(requestCounter, source, target, ids,
                                                over[i].ConcentrationRatio))]
                           : pair \in migrateBlocks(m.nodes[source], m.nodes[target], ids, 1)}
                     ELSE {m}
                     : ids \in selectBlocksForMigration(m.nodes[source])}
         IN  UNION {performMigration(m2, over, rest, i + 1, requestCounter) : m2 \in moved}

checkAndMigrateHotspots(c, history, nl, requestCounter) ==
    LET concentrations == analyzeConcentration(c, nl, requestCounter)
        IsOver(conc) == RLess(MigrationThreshold, conc.ConcentrationRatio)
        IsUnder(conc) == ~IsOver(conc)
                         /\ RLess(conc.ConcentrationRatio, RDiv(MigrationThreshold, RInt(2)))
        overloadedNodes == SelectSeq2(concentrations,
                               [k \in 1..Len(concentrations) |-> IsOver(concentrations[k])])
        underloadedNodes == SelectSeq2(concentrations,
                               [k \in 1..Len(concentrations) |-> IsUnder(concentrations[k])])
    IN  IF Len(overloadedNodes) > 0 /\ Len(underloadedNodes) > 0
        THEN performMigration([nodes |-> c, history |-> history],
                              SortSlice(overloadedNodes, TRUE),
                              SortSlice(underloadedNodes, FALSE),
                              1, requestCounter)
        ELSE {[nodes |-> c, history |-> history]}

\* A SelectNode that counts the request before looking at the node list.
HotspotMigrationSelectCountFirst(c, s, request, nl) ==
    LET counter == s.requestCounter + 1
    IN  IF Len(nl) = 0 THEN {Outcome(c, [s EXCEPT !.requestCounter = counter], Nil)}
        ELSE LET migrated == IF counter % MigrationInterval = 0
                             THEN checkAndMigrateHotspots(c, s.migrationHistory, nl, counter)
                             ELSE {[nodes |-> c, history |-> s.migrationHistory]}
             IN  {Outcome(m.nodes,
                          [s EXCEPT !.requestCounter = counter,
                                    !.migrationHistory = m.history],
                          selectNodeWithHotspotAwareness(request, m.nodes, nl, counter))
                  : m \in migrated}

\* A SelectNode that runs the migration pass on every call.
HotspotMigrationSelectEveryCall(c, s, request, nl) ==
    IF Len(nl) = 0 THEN {Outcome(c, s, Nil)}
    ELSE LET counter == s.requestCounter + 1
             migrated == checkAndMigrateHotspots(c, s.migrationHistory, nl, counter)
         IN  {Outcome(m.nodes,
                      [s EXCEPT !.requestCounter = counter, !.migrationHistory = m.history],
                      selectNodeWithHotspotAwareness(request, m.nodes, nl, counter))
              : m \in migrated}

HotspotMigrationSelect(c, s, request, nl) ==
    IF Len(nl) = 0 THEN {Outcome(c, s, Nil)}
    ELSE LET counter == s.requestCounter + 1
             migrated == IF counter % MigrationInterval = 0
                         THEN checkAndMigrateHotspots(c, s.migrationHistory, nl, counter)
                         ELSE {[nodes |-> c, history |-> s.migrationHistory]}
         IN  {Outcome(m.nodes,
                      [s EXCEPT !.requestCounter = counter, !.migrationHistory = m.history],
                      selectNodeWithHotspotAwareness(request, m.nodes, nl, counter))
              : m \in migrated}

\* ------------------------------------------------------------------ prefix-aware selector

\* NewPrefixAwareHotspotSelector(0.5, 0.6, 0.8, 0.15)
PrefixAlpha == Rat(5, 10)

PrefixBeta == Rat(6, 10)

PrefixGamma == Rat(8, 10)

PrefixHotspotThreshold == Rat(15, 100)

TimeWindowSize == 1000

MaxPrefixLength == 8

HistoryWindowSize == 20

DigitChars == <<"0", "1", "2", "3", "4", "5", "6", "7", "8", "9">>

\* fmt.Sprintf("%d", id), as the list of its characters
RECURSIVE Decimal(_)
Decimal(n) ==
    IF n < 0 THEN <<"-">> \o Decimal(0 - n)
    ELSE IF n < 10 THEN <<DigitChars[n + 1]>>
    ELSE Decimal(n \div 10) \o <<DigitChars[(n % 10) + 1]>>

\* The prefix key: the decimal IDs joined by commas.
RECURSIVE hashIDsToKey(_)
hashIDsToKey(hashIDs) ==
    IF Len(hashIDs) = 0 THEN <<>>
    ELSE IF Len(hashIDs) = 1 THEN Decimal(hashIDs[1])
    ELSE hashIDsToKey(SubSeq(hashIDs, 1, Len(hashIDs) - 1)) \o <<",">>
         \o Decimal(hashIDs[Len(hashIDs)])

\* A nil HotspotMetrics pointer is the record with attached = FALSE.
NewHotspotMetrics ==
    [attached |-> TRUE, PrefixPatterns |-> EmptyFun, ReplicationFactor |-> EmptyFun,
     MigrationHistory |-> <<>>]

NewPrefixPattern(prefix) ==
    [Prefix |-> prefix, HitCount |-> 0, NodeDist |-> EmptyFun, LastHit |-> 0,
     Intensity |-> Rat(0, 1), HitHistory |-> <<>>, TrendSlope |-> Rat(0, 1),
     PredictedHot |-> FALSE]

RECURSIVE SumSeq(_)
SumSeq(s) == IF Len(s) = 0 THEN 0 ELSE s[1] + SumSeq(Tail(s))

\* Least-squares slope of the history over x = 0, 1, ..., n-1.
calculateTrendSlope(hitHistory) ==
    LET n == Len(hitHistory)
        sumX == SumSeq([i \in 1..n |-> i - 1])
        sumY == SumSeq(hitHistory)
        sumXY == SumSeq([i \in 1..n |-> (i - 1) * hitHistory[i]])
        sumX2 == SumSeq([i \in 1..n |-> (i - 1) * (i - 1)])
        denominator == n * sumX2 - sumX * sumX
    IN  IF n < 2 \/ denominator = 0 THEN Rat(0, 1)
        ELSE Rat(n * sumXY - sumX * sumY, denominator)

\* predictionScore > 0.6, scores in tenths. In float64 the sums 0.4+0.2 and
\* 0.2+0.4 come out as 0.6000000000000001, so three of the four combinations
\* whose exact score is 0.6 pass the test.
predictFutureHotspot(pattern) ==
    LET trendScore == IF RLess(Rat(5, 100), pattern.TrendSlope) THEN 10
                      ELSE IF RLess(Rat(1, 100), pattern.TrendSlope) THEN 5
                      ELSE 0
        intensityRatio == RDiv(pattern.Intensity, PrefixHotspotThreshold)
        intensityScore == IF RLess(Rat(7, 10), intensityRatio) THEN 10
                          ELSE IF RLess(Rat(5, 10), intensityRatio) THEN 7
                          ELSE IF RLess(Rat(3, 10), intensityRatio) THEN 3
                          ELSE 0
        n == Len(pattern.HitHistory)
        avgRecentHits == SumSeq(SubSeq(pattern.HitHistory, n - 2, n)) \div 3
        frequencyScore == IF n < 3 THEN 0
                          ELSE IF avgRecentHits > pattern.HitCount \div 2 THEN 10
                          ELSE IF avgRecentHits > pattern.HitCount \div 4 THEN 6
                          ELSE 0
        score == 4 * trendScore + 4 * intensityScore + 2 * frequencyScore
    IN  \/ score > 60
        \/ score = 60 /\ ~(trendScore = 5 /\ intensityScore = 7 /\ frequencyScore = 6)

\* A predictive analysis that appends to the history and never drops a sample.
updatePredictiveAnalysisKeepAll(pattern) ==
    LET history == Append(pattern.HitHistory, pattern.HitCount)
        p1 == [pattern EXCEPT !.HitHistory = history,
                              !.TrendSlope = IF Len(history) >= 5
                                             THEN calculateTrendSlope(history) ELSE @]
    IN  [p1 EXCEPT !.PredictedHot = predictFutureHotspot(p1)]

updatePredictiveAnalysis(pattern) ==
    LET kept == IF Len(pattern.HitHistory) >= HistoryWindowSize
                THEN Tail(pattern.HitHistory) ELSE pattern.HitHistory
        history == Append(kept, pattern.HitCount)
        p1 == [pattern EXCEPT !.HitHistory = history,
                              !.TrendSlope = IF Len(history) >= 5
                                             THEN calculateTrendSlope(history) ELSE @]
    IN  [p1 EXCEPT !.PredictedHot = predictFutureHotspot(p1)]

isHotspot(pattern) == RLess(PrefixHotspotThreshold, pattern.Intensity)

\* Intensity >= k/100
IntensityAtLeast(pattern, k) == ~RLess(pattern.Intensity, Rat(k, 100))

SlopeAtLeast(pattern, k) == ~RLess(pattern.TrendSlope, Rat(k, 100))

calculateDynamicReplicationFactor(pattern, n) ==
    1 + (IF IntensityAtLeast(pattern, 50) THEN min(n - 1, 3)
         ELSE IF IntensityAtLeast(pattern, 20) THEN min(n - 1, 2)
         ELSE IF IntensityAtLeast(pattern, 10) THEN min(n - 1, 1)
         ELSE 0)

calculatePredictiveReplicationFactor(pattern, n) ==
    1 + (IF SlopeAtLeast(pattern, 20) /\ IntensityAtLeast(pattern, 5) THEN min(n - 1, 2)
         ELSE IF SlopeAtLeast(pattern, 10) /\ IntensityAtLeast(pattern, 3) THEN min(n - 1, 1)
         ELSE IF SlopeAtLeast(pattern, 5) THEN min(n - 1, 1)
         ELSE 0)

\* len(queue) + len(blocks)/MaxCacheSize
CompositeLoad(node) ==
    RAdd(RInt(Len(node.queue)), Rat(Cardinality(Cached(node)), node.MaxCacheSize))

\* One pass of the bubble sort over positions j, j+1, ...
RECURSIVE BubblePass(_, _, _, _)
BubblePass(c, ids, j, lastJ) ==
    IF j > lastJ THEN ids
    ELSE IF RLess(CompositeLoad(c[ids[j + 1]]), CompositeLoad(c[ids[j]]))
         THEN BubblePass(c, [ids EXCEPT ![j] = ids[j + 1], ![j + 1] = ids[j]], j + 1, lastJ)
         ELSE BubblePass(c, ids, j + 1, lastJ)

RECURSIVE BubbleSort(_, _, _)
BubbleSort(c, ids, i) ==
    IF i >= Len(ids) - 1 THEN ids
    ELSE BubbleSort(c, BubblePass(c, ids, 1, Len(ids) - i - 1), i + 1)

\* A target choice that takes the candidates in list order, unsorted.
selectOptimalTargetNodesUnsorted(c, source, nl, replicationFactor) ==
    LET NotSource(id) == id # source
        candidates == SelectSeq2(nl, [k \in 1..Len(nl) |-> NotSource(nl[k])])
        targetCount == min(replicationFactor - 1, Len(candidates))
    IN  IF targetCount <= 0 THEN <<>>
        ELSE SubSeq(candidates, 1, targetCount)

selectOptimalTargetNodes(c, source, nl, replicationFactor) ==
    LET NotSource(id) == id # source
        candidates == SelectSeq2(nl, [k \in 1..Len(nl) |-> NotSource(nl[k])])
        targetCount == min(replicationFactor - 1, Len(candidates))
    IN  IF targetCount <= 0 THEN <<>>
        ELSE SubSeq(BubbleSort(c, candidates, 0), 1, targetCount)

\* A copy that carries the source block's hit count over to the target.
RECURSIVE CopyPrefixKeepHits(_, _, _, _)
CopyPrefixKeepHits(r, srcBlocks, prefix, i) ==
    IF i > Len(prefix) THEN r
    ELSE LET hashID == prefix[i]
             t == r.node
         IN  IF hashID \in DOMAIN srcBlocks /\ Cardinality(Cached(t)) < t.MaxCacheSize
             THEN CopyPrefixKeepHits(
                    [node |-> [t EXCEPT !.blocks = Put(@, hashID,
                                                       Block(srcBlocks[hashID].HashID,
                                                             srcBlocks[hashID].HitCount,
                                                             t.seqCounter + 1)),
                                        !.seqCounter = @ + 1,
                                        !.ev = OnAdd(@, hashID)],
                     migratedCount |-> r.migratedCount + 1],
                    srcBlocks, prefix, i + 1)
             ELSE CopyPrefixKeepHits(r, srcBlocks, prefix, i + 1)

\* A copy that never looks at the target's block count.
RECURSIVE CopyPrefixAnyway(_, _, _, _)
CopyPrefixAnyway(r, srcBlocks, prefix, i) ==
    IF i > Len(prefix) THEN r
    ELSE LET hashID == prefix[i]
             t == r.node
         IN  IF hashID \in DOMAIN srcBlocks
             THEN CopyPrefixAnyway(
                    [node |-> [t EXCEPT !.blocks = Put(@, hashID,
                                                       Block(srcBlocks[hashID].HashID, 1,
                                                             t.seqCounter + 1)),
                                        !.seqCounter = @ + 1,
                                        !.ev = OnAdd(@, hashID)],
                     migratedCount |-> r.migratedCount + 1],
                    srcBlocks, prefix, i + 1)
             ELSE CopyPrefixAnyway(r, srcBlocks, prefix, i + 1)

\* The copy of the prefix's blocks into one target. r = [node, migratedCount].
RECURSIVE CopyPrefix(_, _, _, _)
CopyPrefix(r, srcBlocks, prefix, i) ==
    IF i > Len(prefix) THEN r
    ELSE LET hashID == prefix[i]
             t == r.node
         IN  IF hashID \in DOMAIN srcBlocks /\ Cardinality(Cached(t)) < t.MaxCacheSize
             THEN CopyPrefix(
                    [node |-> [t EXCEPT !.blocks = Put(@, hashID,
                                                       Block(srcBlocks[hashID].HashID, 1,
                                                             t.seqCounter + 1)),
                                        !.seqCounter = @ + 1,
                                        !.ev = OnAdd(@, hashID)],
                     migratedCount |-> r.migratedCount + 1],
                    srcBlocks, prefix, i + 1)
             ELSE CopyPrefix(r, srcBlocks, prefix, i + 1)

PrefixMigrationRecord(key, from, to, timestamp, reason, rf, pattern) ==
    [PrefixKey |-> key, FromNode |-> from, ToNode |-> to, Timestamp |-> timestamp,
     Reason |-> reason, ReplicationFactor |-> rf, TrendSlope |-> pattern.TrendSlope,
     Intensity |-> pattern.Intensity]

\* The loop over the target nodes; migratedCount runs on across targets.
RECURSIVE CopyToTargets(_, _, _, _, _, _, _, _, _)
CopyToTargets(c, targets, k, migratedCount, key, pattern, source, reason, stamp) ==
    IF k > Len(targets) THEN c
    ELSE LET r == CopyPrefix([node |-> c[targets[k]], migratedCount |-> migratedCount],
                             c[source].blocks, pattern.Prefix, 1)
             c1 == [c EXCEPT ![targets[k]] = r.node]
             c2 == IF r.migratedCount > 0
                   THEN [c1 EXCEPT ![source].metrics.MigrationHistory =
                            Append(@, PrefixMigrationRecord(key, source, targets[k], stamp.counter,
                                                            reason, stamp.rf, pattern))]
                   ELSE c1
         IN  CopyToTargets(c2, targets, k + 1, r.migratedCount, key, pattern, source, reason, stamp)

executeHotspotMigrationWithPrediction(c, key, pattern, source, nl, reason, accessCounter) ==
    LET replicationFactor ==
            IF reason = "predicted_hotspot"
            THEN calculatePredictiveReplicationFactor(pattern, Len(nl))
            ELSE calculateDynamicReplicationFactor(pattern, Len(nl))
        c1 == [c EXCEPT ![source].metrics.ReplicationFactor = Put(@, key, replicationFactor)]
        targetNodes == selectOptimalTargetNodes(c1, source, nl, replicationFactor)
    IN  CopyToTargets(c1, targetNodes, 1, 0, key, pattern, source, reason,
                      [counter |-> accessCounter, rf |-> replicationFactor])

\* The first node holding the most positions of the prefix, Nil if none holds any.
findBestPrefixNode(c, prefix, nl) ==
    LET Hits(i) == HitCountOf(prefix, c[nl[i]])
        best == {i \in 1..Len(nl) : Hits(i) > 0
                                    /\ \A j \in 1..Len(nl) : Hits(j) <= Hits(i)
                                    /\ \A k \in 1..(i - 1) : Hits(k) < Hits(i)}
    IN  IF best = {} THEN Nil ELSE nl[CHOOSE i \in best : TRUE]

\* detectAndMigrateHotspots, loop body once the pattern's analysis is refreshed:
\* migrate when the prefix is a hot spot now or is predicted to become one.
migrateIfHotspot(c, prefixKey, pattern, maxHitNode, nl, accessCounter) ==
    LET c1 == [c EXCEPT ![maxHitNode].metrics.PrefixPatterns[prefixKey] = pattern]
        isCurrentHotspot == isHotspot(pattern)
        isPredictedHotspot == pattern.PredictedHot /\ RLess(Rat(1, 10), pattern.TrendSlope)
    IN  IF isCurrentHotspot \/ isPredictedHotspot
        THEN executeHotspotMigrationWithPrediction(
                 c1, prefixKey, pattern, maxHitNode, nl,
                 IF isPredictedHotspot /\ ~isCurrentHotspot
                 THEN "predicted_hotspot" ELSE "current_hotspot",
                 accessCounter)
        ELSE c1

\* detectAndMigrateHotspots, loop body for one prefix: skip it when no node holds
\* any of it or when the best node has no pattern recorded for it.
detectPrefix(c, prefixKey, maxHitNode, nl, accessCounter) ==
    IF maxHitNode = Nil THEN c
    ELSE IF prefixKey \notin DOMAIN c[maxHitNode].metrics.PrefixPatterns THEN c
    ELSE migrateIfHotspot(
             c, prefixKey,
             updatePredictiveAnalysis(c[maxHitNode].metrics.PrefixPatterns[prefixKey]),
             maxHitNode, nl, accessCounter)

\* detectAndMigrateHotspots, from prefix length prefixLen downwards.
RECURSIVE detectAndMigrateHotspots(_, _, _, _, _)
detectAndMigrateHotspots(c, request, nl, prefixLen, accessCounter) ==
    IF prefixLen < 2 THEN c
    ELSE detectAndMigrateHotspots(
             detectPrefix(c, hashIDsToKey(SubSeq(request, 1, prefixLen)),
                          findBestPrefixNode(c, SubSeq(request, 1, prefixLen), nl),
                          nl, accessCounter),
             request, nl, prefixLen - 1, accessCounter)

\* The longest run of cached IDs from position 0 within the prefix.
ContinuousLen(prefix, node) ==
    LET runs == {k \in 0..Len(prefix) : \A i \in 1..k : prefix[i] \in Cached(node)}
    IN  CHOOSE k \in runs : \A l \in runs : l <= k

\* A prefix score that counts every cached ID of the prefix, in a run or not.
calculatePrefixScoreScattered(request, node) ==
    LET lens == 2..min(MaxPrefixLength, Len(request))
        scores == {HitCountOf(SubSeq(request, 1, l), node) : l \in lens} \cup {0}
    IN  Rat(CHOOSE x \in scores : \A y \in scores : y <= x, MaxPrefixLength)

\* max over the prefix lengths of (continuousLen/prefixLen)*prefixLen, over MaxPrefixLength
calculatePrefixScore(request, node) ==
    LET lens == 2..min(MaxPrefixLength, Len(request))
        scores == {ContinuousLen(SubSeq(request, 1, l), node) : l \in lens} \cup {0}
    IN  Rat(CHOOSE x \in scores : \A y \in scores : y <= x, MaxPrefixLength)

\* A final score without the prefix term.
PrefixFinalScoreNoPrefix(request, node) ==
    LET cacheScore == Rat(HitCountOf(request, node), Len(request))
        loadScore == Rat(100, 100 + Len(node.queue))
    IN  RAdd(RMul(PrefixAlpha, cacheScore), RMul(PrefixBeta, loadScore))

PrefixFinalScore(request, node) ==
    LET cacheScore == Rat(HitCountOf(request, node), Len(request))
        prefixScore == calculatePrefixScore(request, node)
        loadScore == Rat(100, 100 + Len(node.queue))
    IN  RAdd(RAdd(RMul(PrefixAlpha, cacheScore), RMul(PrefixGamma, prefixScore)),
             RMul(PrefixBeta, loadScore))

selectBestNodeWithPrefixAwareness(c, request, nl) ==
    LET Score(i) == PrefixFinalScore(request, c[nl[i]])
    IN  nl[FirstBest([i \in 1..Len(nl) |-> Score(i)])]

\* updatePrefixPatterns on the selected node's metrics, from prefixLen downwards.
RECURSIVE updatePrefixPatterns(_, _, _, _, _)
updatePrefixPatterns(metrics, request, selected, prefixLen, accessCounter) ==
    IF prefixLen < 2 THEN metrics
    ELSE LET prefix == SubSeq(request, 1, prefixLen)
             prefixKey == hashIDsToKey(prefix)
             old == IF prefixKey \in DOMAIN metrics.PrefixPatterns
                    THEN metrics.PrefixPatterns[prefixKey]
                    ELSE NewPrefixPattern(prefix)
             windowStart == IF accessCounter - TimeWindowSize < 0 THEN 0
                            ELSE accessCounter - TimeWindowSize
             hitCount == old.HitCount + 1
             new == [old EXCEPT
                        !.HitCount = hitCount,
                        !.LastHit = accessCounter,
                        !.NodeDist = Put(@, selected,
                                         (IF selected \in DOMAIN @ THEN @[selected] ELSE 0) + 1),
                        !.Intensity = IF accessCounter >= windowStart
                                      THEN Rat(hitCount, accessCounter - windowStart + 1)
                                      ELSE @]
         IN  updatePrefixPatterns(
                 [metrics EXCEPT !.PrefixPatterns = Put(@, prefixKey, new)],
                 request, selected, prefixLen - 1, accessCounter)

\* SelectNode once the best node is known: record the request's prefixes on it.
PrefixAwareRecord(c1, s, request, counter, bestNode) ==
    {Outcome([c1 EXCEPT ![bestNode].metrics =
                 updatePrefixPatterns(@, request, bestNode,
                                      min(MaxPrefixLength, Len(request)), counter)],
             [s EXCEPT !.accessCounter = counter], bestNode)}

\* SelectNode after the hot-spot pass left the cluster as c1: score the nodes.
PrefixAwareScore(c1, s, request, nl, counter) ==
    PrefixAwareRecord(c1, s, request, counter,
                      selectBestNodeWithPrefixAwareness(c1, request, nl))

\* PrefixAwareHotspotSelector.SelectNode: attach missing metrics, run the hot-spot
\* pass, score, record the prefixes.
PrefixAwareSelect(c, s, request, nl) ==
    IF Len(nl) = 0 THEN {Outcome(c, s, Nil)}
    ELSE LET inList == {nl[i] : i \in 1..Len(nl)}
             c0 == [id \in DOMAIN c |->
                       IF id \in inList /\ ~c[id].metrics.attached
                       THEN [c[id] EXCEPT !.metrics = NewHotspotMetrics]
                       ELSE c[id]]
         IN  PrefixAwareScore(
                 detectAndMigrateHotspots(c0, request, nl,
                                          min(MaxPrefixLength, Len(request)),
                                          s.accessCounter + 1),
                 s, request, nl, s.accessCounter + 1)

\* PrefillNodeSelector.SelectNode: dispatch on the dynamic type.
SelectNode(c, s, request, nl) ==
    CASE s.kind = "Random" -> RandomSelect(c, s, request, nl)
      [] s.kind = "LoadBalanced" -> LoadBalancedSelect(c, s, request, nl)
      [] s.kind = "CacheAware" -> CacheAwareSelect(c, s, request, nl)
      [] s.kind = "Enhanced" -> EnhancedSelect(c, s, request, nl)
      [] s.kind = "HotspotMigration" -> HotspotMigrationSelect(c, s, request, nl)
      [] s.kind = "PrefixAware" -> PrefixAwareSelect(c, s, request, nl)

NewSelector(kind) ==
    [kind |-> kind, requestCounter |-> 0, migrationHistory |-> <<>>, accessCounter |-> 0,
     Alpha |-> EnhancedAlpha, Beta |-> EnhancedBeta]

\* NewEnhancedCacheAwareSelector(alpha, beta)
NewEnhancedCacheAwareSelector(alpha, beta) ==
    [NewSelector("Enhanced") EXCEPT !.Alpha = alpha, !.Beta = beta]

\* ------------------------------------------------------------------ ProcessRequest

\* Per-node configurations: MaxMemoryMB (NewSimulator sets 2; 0 is the zero value
\* of a node built by hand) and MaxCacheSize.
MemoryConfigs == {0, 1, 2}

CacheSizes == {1, 3}

NoResult ==
    [status |-> "none", node |-> Nil, request |-> <<>>, CacheHits |-> 0, CacheMisses |-> 0,
     exhausted |-> FALSE, survived |-> TRUE, allCached |-> FALSE,
     pre |-> [keys |-> {}, used |-> 0, TotalHits |-> 0, TotalMisses |-> 0, evicted |-> 0],
     at |-> EmptyFun]

\* What SelectNode left of the cluster when it returned: per node, the keys of
\* the block map, the queue length and the sequence counter.
ClusterView(c) ==
    [id \in DOMAIN c |-> [keys |-> Cached(c[id]), qlen |-> Len(c[id].queue),
                          seqCounter |-> c[id].seqCounter]]

ErrorResult == [NoResult EXCEPT !.status = "error"]

Evicted(ns, id) == IF id \in DOMAIN ns THEN ns[id].EvictedBlocks ELSE 0

\* ProcessRequest's bookkeeping after the block loop: n0 and ns0 are the node and
\* its statistics before the loop, w the loop's outcome. The result is the next
\* value of the state.
RecordRequest(o, request, n0, ns0, w) ==
    [nodes |-> [o.nodes EXCEPT ![o.selected] = w.node],
     sel |-> o.sel,
     stats |-> [stats EXCEPT !.TotalRequests = @ + 1,
                             !.TotalHits = @ + w.hits,
                             !.TotalMisses = @ + w.misses],
     nodeStats |-> Put(nodeStats, o.selected,
                       [ns0 EXCEPT !.TotalRequests = @ + 1,
                                   !.TotalHits = @ + w.hits,
                                   !.TotalMisses = @ + w.misses,
                                   !.EvictedBlocks = w.evicted]),
     short |-> [short EXCEPT ![o.selected] = w.short],
     last |-> [status |-> "ok", node |-> o.selected, request |-> request,
               CacheHits |-> w.hits, CacheMisses |-> w.misses,
               exhausted |-> w.exhausted,
               survived |-> w.survived,
               allCached |-> \A i \in 1..Len(request) : request[i] \in Cached(n0),
               pre |-> [keys |-> Cached(n0), used |-> n0.used,
                        TotalHits |-> n0.TotalHits, TotalMisses |-> n0.TotalMisses,
                        evicted |-> ns0.EvictedBlocks],
               at |-> ClusterView(o.nodes)]]

\* ProcessRequest's block loop over the selected node.
ServeRequest(o, request, n0, ns0) ==
    RecordRequest(o, request, n0, ns0,
                  WalkBlocks([node |-> n0, evicted |-> ns0.EvictedBlocks, hits |-> 0,
                              misses |-> 0, exhausted |-> FALSE, survived |-> TRUE,
                              short |-> short[o.selected]],
                             request, 1))

\* The part of ProcessRequest after a node was selected: queue the request, make
\* sure the node has a statistics record, then serve the blocks.
\* o is SelectNode's outcome.
ProcessOn(o, request) ==
    ServeRequest(o, request,
                 [o.nodes[o.selected] EXCEPT !.queue = Enqueue(@, request)],
                 IF o.selected \in DOMAIN nodeStats THEN nodeStats[o.selected]
                 ELSE NewNodeStatistics)

\* The state a served request leaves; r is ProcessOn's result.
Served(r, request) ==
    /\ offered' = offered + Len(request)
    /\ nodes' = r.nodes
    /\ sel' = r.sel
    /\ stats' = r.stats
    /\ nodeStats' = r.nodeStats
    /\ short' = r.short
    /\ last' = r.last

\* One call of ProcessRequest, whatever the number of calls made before it.
ProcessCall(request, nl) ==
    /\ calls' = calls + 1
    /\ \E o \in SelectNode(nodes, sel, request, nl) :
          IF o.selected = Nil
          THEN /\ nodes' = o.nodes
               /\ sel' = o.sel
               /\ last' = ErrorResult
               /\ UNCHANGED <<stats, nodeStats, short, offered>>
          ELSE Served(ProcessOn(o, request), request)
    /\ UNCHANGED <<simNodes, hp, hb, ho, hlast, run, app>>

ProcessRequest(request, nl) ==
    /\ calls < MaxRequests
    /\ ProcessCall(request, nl)

\* A request processed over the simulator's node list.
Process == \E request \in Requests : ProcessRequest(request, simNodes)

\* A request processed over an empty node list.
ProcessNoNodes == \E request \in Requests : ProcessRequest(request, <<>>)

\* ------------------------------------------------------------------ policy driver

\* The block IDs the driver adds, accesses and evicts.
HarnessIDs == {0, 1, 2}

Without(seq, id) == SelectSeq(seq, LAMBDA x : x # id)

\* What the driver remembers of its own calls, independently of the policy:
\* recency  - the IDs it holds, most recently added or accessed first
\* firstAdd - the IDs it holds, by their first OnAdd since they were last absent
\* lastAdd  - the IDs it holds, by their latest OnAdd
\* freq     - ID -> 1 + number of accesses since its latest OnAdd
\* since    - ID -> the operation that brought it to its current frequency
\* readded  - some OnAdd named an ID the driver already held
NewNotes ==
    [recency |-> <<>>, firstAdd |-> <<>>, lastAdd |-> <<>>, freq |-> EmptyFun,
     since |-> EmptyFun, readded |-> FALSE, ops |-> 0]

Held(o) == {o.recency[i] : i \in 1..Len(o.recency)}

NoteAdd(o, id) ==
    [recency |-> <<id>> \o Without(o.recency, id),
     firstAdd |-> IF id \in Held(o) THEN o.firstAdd ELSE Append(o.firstAdd, id),
     lastAdd |-> Append(Without(o.lastAdd, id), id),
     freq |-> Put(o.freq, id, 1),
     since |-> Put(o.since, id, o.ops + 1),
     readded |-> o.readded \/ id \in Held(o),
     ops |-> o.ops + 1]

NoteAccess(o, id) ==
    [o EXCEPT !.recency = <<id>> \o Without(o.recency, id),
              !.freq = Put(@, id, o.freq[id] + 1),
              !.since = Put(@, id, o.ops + 1),
              !.ops = @ + 1]

NoteEvict(o, id) ==
    [o EXCEPT !.recency = Without(@, id),
              !.firstAdd = Without(@, id),
              !.lastAdd = Without(@, id),
              !.freq = Drop(@, id),
              !.since = Drop(@, id),
              !.ops = @ + 1]

\* The least recently added-or-accessed ID the driver holds.
LeastRecent(o) == IF Len(o.recency) = 0 THEN Absent ELSE o.recency[Len(o.recency)]

\* The held IDs a first-in-first-out order may name: the earliest by first
\* OnAdd and the earliest by latest OnAdd (they differ only after a re-add).
EarliestAdded(o) ==
    IF Len(o.firstAdd) = 0 THEN {Absent} ELSE {o.firstAdd[1], o.lastAdd[1]}

\* The held ID of least frequency, the earliest to have reached it.
LeastFrequent(o) ==
    IF Held(o) = {} THEN Absent
    ELSE CHOOSE id \in Held(o) :
            \A other \in Held(o) :
                \/ o.freq[id] < o.freq[other]
                \/ o.freq[id] = o.freq[other] /\ o.since[id] <= o.since[other]

NoOp ==
    [op |-> "none", id |-> Absent, ret |-> Absent, held |-> {}, expLRU |-> Absent,
     expFIFO |-> {Absent}, expLFU |-> Absent, freqs |-> EmptyFun, readded |-> FALSE,
     orderKept |-> TRUE, hitDelta |-> 0]

HarnessIdle ==
    /\ hp = NewFIFOEviction
    /\ hb = EmptyFun
    /\ ho = NewNotes
    /\ hlast = NoOp

\* No function is being called on its own.
NoApp == [fn |-> "none"]

\* No miss is being stepped through.
NoRun ==
    [pc |-> "idle", node |-> NewNode(0, 0, "FIFO"), id |-> Absent, evictID |-> Absent,
     ops |-> 0, misses |-> 0, scanned |-> FALSE, stale |-> FALSE]

Init ==
    /\ \E kind \in SelectorKinds, policy \in PolicyKinds, nodeCount \in ClusterSizes,
          maxMem \in MemoryConfigs, maxCache \in CacheSizes :
          /\ simNodes = NodeListOf(nodeCount)
          /\ nodes = [id \in IDsOf(NodeListOf(nodeCount)) |-> NewNode(maxCache, maxMem, policy)]
          /\ sel = NewSelector(kind)
    /\ stats = [TotalRequests |-> 0, TotalHits |-> 0, TotalMisses |-> 0]
    /\ nodeStats = EmptyFun
    /\ last = NoResult
    /\ short = [id \in IDsOf(NodeNames) |-> "none"]
    /\ calls = 0
    /\ offered = 0
    /\ HarnessIdle
    /\ run = NoRun
    /\ app = NoApp

Next == Process \/ ProcessNoNodes

Spec == Init /\ [][Next]_vars

\* The driver stores a block and tells the policy: blocks[id] = &Block{...}; OnAdd(id).
HOnAdd(id) ==
    /\ ho.ops < MaxOps
    /\ hp' = OnAdd(hp, id)
    /\ hb' = Put(hb, id, Block(id, 1, ho.ops + 1))
    /\ ho' = NoteAdd(ho, id)
    /\ hlast' = [NoOp EXCEPT !.op = "add", !.id = id, !.held = DOMAIN hb]
    /\ UNCHANGED procVars

\* The driver reads a block it holds: UpdateOnAccess(blocks[id]).
HAccess(id) ==
    /\ ho.ops < MaxOps
    /\ id \in DOMAIN hb
    /\ LET u == UpdateOnAccess(hp, hb[id])
       IN  /\ hp' = u.p
           /\ hb' = [hb EXCEPT ![id] = u.block]
           /\ hlast' = [NoOp EXCEPT !.op = "access", !.id = id, !.held = DOMAIN hb,
                                     !.orderKept = (u.p = hp),
                                     !.hitDelta = u.block.HitCount - hb[id].HitCount]
    /\ ho' = NoteAccess(ho, id)
    /\ UNCHANGED procVars

\* The driver asks for a victim and deletes it: id := Evict(blocks); delete(blocks, id).
HEvict ==
    /\ ho.ops < MaxOps
    /\ LET r == Evict(hp)
       IN  /\ hp' = r.p
           /\ hb' = Drop(hb, r.id)
           /\ ho' = NoteEvict(ho, r.id)
           /\ hlast' = [NoOp EXCEPT !.op = "evict", !.ret = r.id, !.held = DOMAIN hb,
                                     !.expLRU = LeastRecent(ho),
                                     !.expFIFO = EarliestAdded(ho),
                                     !.expLFU = LeastFrequent(ho),
                                     !.freqs = ho.freq,
                                     !.readded = ho.readded]
    /\ UNCHANGED procVars

\* ------------------------------------------------ the miss path, step by step

\* One node, driven by hits, misses and the moves of migrateBlocks; a miss is
\* taken one statement at a time so that its loops are loops of the model.
StepIDs == {0, 1, 2}

StepMemory == {0, 1}

MaxSteps == 6

restVars ==
    <<simNodes, nodes, sel, stats, nodeStats, last, short, calls, offered, hp, hb, ho, hlast, app>>

Idle == run.pc = "idle" /\ run.ops < MaxSteps

\* "Cache命中": UpdateOnAccess on the block found in the map.
StepHit(id) ==
    /\ Idle
    /\ id \in Cached(run.node)
    /\ LET u == UpdateOnAccess(run.node.ev, run.node.blocks[id])
       IN  run' = [run EXCEPT !.node.blocks[id] = u.block, !.node.ev = u.p,
                              !.node.TotalHits = @ + 1, !.ops = @ + 1]
    /\ UNCHANGED restVars

\* migrateBlocks on the source: delete(sourceNode.CacheBlocks, hashID); the
\* policy is not told.
StepMoveOut(id) ==
    /\ Idle
    /\ id \in Cached(run.node)
    /\ run' = [run EXCEPT !.node.blocks = Drop(@, id), !.ops = @ + 1]
    /\ UNCHANGED restVars

\* migrateBlocks on the target: targetNode.CacheBlocks[hashID] = block; the
\* policy is not told and no memory is charged.
StepMoveIn(id) ==
    /\ Idle
    /\ id \notin Cached(run.node)
    /\ run' = [run EXCEPT !.node.blocks = Put(@, id, Block(id, 1, 1)), !.ops = @ + 1]
    /\ UNCHANGED restVars

\* "Cache未命中": TotalMisses++, then the reclaim loop is entered.
StartMiss(id) ==
    /\ Idle
    /\ id \notin Cached(run.node)
    /\ run' = [run EXCEPT !.pc = "test", !.id = id, !.node.TotalMisses = @ + 1,
                          !.ops = @ + 1, !.scanned = FALSE, !.stale = FALSE]
    /\ UNCHANGED restVars

\* for availableMemory < requiredMemory && len(CacheBlocks) > 0
LoopTest ==
    /\ run.pc = "test"
    /\ run' = [run EXCEPT !.pc = IF MemUnits(run.node) - run.node.used < 1
                                    /\ Cached(run.node) # {}
                                 THEN "evict" ELSE "admit"]
    /\ UNCHANGED restVars

\* The scan of updateMinFreq still has a group to look at.
Scanning(p) == Len(GroupAt(p, p.minFreq)) = 0

\* updateMinFreq wrapping around without leaving its loop.
ScanBodyNoBreak(p) ==
    IF p.minFreq + 1 > FreqCeiling
    THEN [p |-> [p EXCEPT !.minFreq = 1], brk |-> FALSE]
    ELSE [p |-> [p EXCEPT !.minFreq = @ + 1], brk |-> FALSE]

\* The body of updateMinFreq's loop: minFreq++, and past the ceiling minFreq
\* is reset to 1 and the loop is left.
ScanBody(p) ==
    IF p.minFreq + 1 > FreqCeiling
    THEN [p |-> [p EXCEPT !.minFreq = 1], brk |-> TRUE]
    ELSE [p |-> [p EXCEPT !.minFreq = @ + 1], brk |-> FALSE]

\* evictID := Evict(CacheBlocks). FIFO and LRU answer without a loop; LFU
\* with an empty minimum group enters updateMinFreq (its first minFreq++).
CallEvict ==
    /\ run.pc = "evict"
    /\ IF run.node.ev.kind = "LFU" /\ DOMAIN run.node.ev.blockFreq # {}
       THEN run' = IF Scanning(run.node.ev)
                   THEN [run EXCEPT !.pc = "scan", !.node.ev.minFreq = @ + 1,
                                    !.scanned = TRUE]
                   ELSE [run EXCEPT !.pc = "pick"]
       ELSE LET r == Evict(run.node.ev)
            IN  run' = [run EXCEPT !.node.ev = r.p, !.evictID = r.id,
                                   !.pc = IF r.id = Absent THEN "admit" ELSE "body"]
    /\ UNCHANGED restVars

\* One test of updateMinFreq's loop condition and, if it holds, one body.
ScanMinFreq ==
    /\ run.pc = "scan"
    /\ IF Scanning(run.node.ev)
       THEN LET b == ScanBody(run.node.ev)
            IN  run' = [run EXCEPT !.node.ev = b.p,
                                   !.pc = IF b.brk THEN "pick" ELSE "scan"]
       ELSE run' = [run EXCEPT !.pc = "pick"]
    /\ UNCHANGED restVars

\* LFU Evict after the minimum group is settled: its front leaves, or -1.
PickVictim ==
    /\ run.pc = "pick"
    /\ LET p == run.node.ev
           minFreqList == GroupAt(p, p.minFreq)
       IN  IF Len(minFreqList) > 0
           THEN run' = [run EXCEPT !.node.ev = removeBlock(p, minFreqList[1].id),
                                   !.evictID = minFreqList[1].id, !.pc = "body"]
           ELSE run' = [run EXCEPT !.evictID = Absent, !.pc = "admit"]
    /\ UNCHANGED restVars

\* delete(CacheBlocks, evictID); UsedMemoryMB -= blockMemoryMB, whether or
\* not the map held the ID.
LoopBody ==
    /\ run.pc = "body"
    /\ run' = [run EXCEPT !.pc = "test",
                          !.stale = @ \/ run.evictID \notin Cached(run.node),
                          !.node.blocks = Drop(@, run.evictID),
                          !.node.used = @ - 1]
    /\ UNCHANGED restVars

\* "添加新block" ends the miss.
AdmitStep ==
    /\ run.pc = "admit"
    /\ run' = [run EXCEPT !.pc = "idle", !.node = AdmitBlock(@, run.id),
                          !.misses = @ + 1]
    /\ UNCHANGED restVars

MissSteps == LoopTest \/ CallEvict \/ ScanMinFreq \/ PickVictim \/ LoopBody \/ AdmitStep

InitSteps ==
    /\ \E policy \in PolicyKinds, maxMem \in StepMemory :
          run = [NoRun EXCEPT !.node = NewNode(Cardinality(StepIDs), maxMem, policy)]
    /\ HarnessIdle
    /\ simNodes = <<>>
    /\ nodes = EmptyFun
    /\ sel = NewSelector("Random")
    /\ stats = [TotalRequests |-> 0, TotalHits |-> 0, TotalMisses |-> 0]
    /\ nodeStats = EmptyFun
    /\ last = NoResult
    /\ short = [id \in IDsOf(NodeNames) |-> "none"]
    /\ calls = 0
    /\ offered = 0
    /\ app = NoApp

NextSteps ==
    \/ \E id \in StepIDs : StepHit(id)
    \/ \E id \in StepIDs : StepMoveOut(id)
    \/ \E id \in StepIDs : StepMoveIn(id)
    \/ \E id \in StepIDs : StartMiss(id)
    \/ MissSteps

\* ProcessRequest is one sequential call: once a miss has begun, its next
\* statement is executed.
SpecSteps == InitSteps /\ [][NextSteps]_vars /\ WF_vars(MissSteps)

\* A policy on its own, driven by any sequence of the three operations.
InitPolicy ==
    /\ \E kind \in PolicyKinds : hp = NewPolicy(kind)
    /\ hb = EmptyFun
    /\ ho = NewNotes
    /\ hlast = NoOp
    /\ simNodes = <<>>
    /\ nodes = EmptyFun
    /\ sel = NewSelector("Random")
    /\ stats = [TotalRequests |-> 0, TotalHits |-> 0, TotalMisses |-> 0]
    /\ nodeStats = EmptyFun
    /\ last = NoResult
    /\ short = [id \in IDsOf(NodeNames) |-> "none"]
    /\ calls = 0
    /\ offered = 0
    /\ run = NoRun
    /\ app = NoApp

NextPolicy ==
    \/ \E id \in HarnessIDs : HOnAdd(id)
    \/ \E id \in HarnessIDs : HAccess(id)
    \/ HEvict

SpecPolicy == InitPolicy /\ [][NextPolicy]_vars

\* ------------------------------------------------------------- request streams

\* A long run of requests through ProcessRequest: the same single-block request
\* over and over, single-block requests cycling through the block IDs, or the
\* same two-block request over and over.
MaxStream == 102

StreamKinds == {"same", "cycle", "pair"}

StreamRequest(kind, i) ==
    IF kind = "same" THEN <<0>> ELSE IF kind = "cycle" THEN <<i % 3>> ELSE <<0, 1>>

\* Selector and cluster size of a stream: a single node under every selector, four
\* nodes under every selector that does not draw random numbers.
StreamConfigs ==
    {<<kind, 1>> : kind \in SelectorKinds}
        \cup {<<kind, 4>> : kind \in SelectorKinds \ {"Random"}}

InitStream ==
    /\ \E cfg \in StreamConfigs, policy \in PolicyKinds, maxMem \in MemoryConfigs,
          maxCache \in CacheSizes :
          /\ simNodes = NodeListOf(cfg[2])
          /\ nodes = [id \in IDsOf(NodeListOf(cfg[2])) |-> NewNode(maxCache, maxMem, policy)]
          /\ sel = NewSelector(cfg[1])
    /\ \E kind \in StreamKinds : app = [fn |-> "stream", kind |-> kind]
    /\ stats = [TotalRequests |-> 0, TotalHits |-> 0, TotalMisses |-> 0]
    /\ nodeStats = EmptyFun
    /\ last = NoResult
    /\ short = [id \in IDsOf(NodeNames) |-> "none"]
    /\ calls = 0
    /\ offered = 0
    /\ HarnessIdle
    /\ run = NoRun

\* The stream's next request is processed.
StreamStep ==
    /\ calls < MaxStream
    /\ ProcessCall(StreamRequest(app.kind, calls), simNodes)

NextStream == StreamStep

SpecStream == InitStream /\ [][NextStream]_vars

\* ------------------------------------------------------------- enhanced selector weights

\* The enhanced selector constructed with other weights than the defaults:
\* alpha and beta in tenths.
AlphaGrid == {0, 6, 10}

BetaGrid == {0, 3, 8, 20}

InitWeights ==
    /\ \E alpha \in AlphaGrid, beta \in BetaGrid, policy \in PolicyKinds,
          nodeCount \in ClusterSizes, maxMem \in MemoryConfigs, maxCache \in CacheSizes :
          /\ simNodes = NodeListOf(nodeCount)
          /\ nodes = [id \in IDsOf(NodeListOf(nodeCount)) |-> NewNode(maxCache, maxMem, policy)]
          /\ sel = NewEnhancedCacheAwareSelector(Rat(alpha, 10), Rat(beta, 10))
    /\ stats = [TotalRequests |-> 0, TotalHits |-> 0, TotalMisses |-> 0]
    /\ nodeStats = EmptyFun
    /\ last = NoResult
    /\ short = [id \in IDsOf(NodeNames) |-> "none"]
    /\ calls = 0
    /\ offered = 0
    /\ HarnessIdle
    /\ run = NoRun
    /\ app = NoApp

NextWeights == Process \/ ProcessNoNodes

SpecWeights == InitWeights /\ [][NextWeights]_vars

\* ------------------------------------------------------------- paired runs

\* Two simulators that differ only in the enhanced selector's beta, fed the same
\* requests.
MaxPaired == 4

\* The cluster one ProcessRequest call under the enhanced selector e leaves.
ProcessUnder(e, c, nl, request) ==
    LET o == CHOOSE x \in EnhancedSelect(c, e, request, nl) : TRUE
        w == WalkBlocks([node |-> [o.nodes[o.selected] EXCEPT !.queue = Enqueue(@, request)],
                         evicted |-> 0, hits |-> 0, misses |-> 0, exhausted |-> FALSE,
                         survived |-> TRUE, short |-> "none"],
                        request, 1)
    IN  [o.nodes EXCEPT ![o.selected] = w.node]

InitPaired ==
    /\ \E alpha \in AlphaGrid, low \in BetaGrid, high \in BetaGrid, policy \in PolicyKinds,
          nodeCount \in ClusterSizes, maxMem \in MemoryConfigs, maxCache \in CacheSizes :
          /\ low < high
          /\ simNodes = NodeListOf(nodeCount)
          /\ app = [fn |-> "paired",
                    eLow |-> NewEnhancedCacheAwareSelector(Rat(alpha, 10), Rat(low, 10)),
                    eHigh |-> NewEnhancedCacheAwareSelector(Rat(alpha, 10), Rat(high, 10)),
                    low |-> [id \in IDsOf(NodeListOf(nodeCount)) |->
                                NewNode(maxCache, maxMem, policy)],
                    high |-> [id \in IDsOf(NodeListOf(nodeCount)) |->
                                 NewNode(maxCache, maxMem, policy)],
                    served |-> 0]
    /\ nodes = EmptyFun
    /\ sel = NewSelector("Enhanced")
    /\ stats = [TotalRequests |-> 0, TotalHits |-> 0, TotalMisses |-> 0]
    /\ nodeStats = EmptyFun
    /\ last = NoResult
    /\ short = [id \in IDsOf(NodeNames) |-> "none"]
    /\ calls = 0
    /\ offered = 0
    /\ HarnessIdle
    /\ run = NoRun

\* Both simulators process the same request.
ProcessPaired(request) ==
    /\ app.served < MaxPaired
    /\ app' = [app EXCEPT !.low = ProcessUnder(app.eLow, app.low, simNodes, request),
                          !.high = ProcessUnder(app.eHigh, app.high, simNodes, request),
                          !.served = @ + 1]
    /\ UNCHANGED <<simNodes, nodes, sel, stats, nodeStats, last, short, calls, offered,
                   hp, hb, ho, hlast, run>>

NextPaired == \E request \in Requests : ProcessPaired(request)

SpecPaired == InitPaired /\ [][NextPaired]_vars

\* ------------------------------------------------------------- the two LRU policies side by side

\* DebugLRUEviction: accessOrder front first, and the IDs orderNodes maps.
NewDebugLRUEviction == [accessOrder |-> <<>>, orderNodes |-> {}]

DebugLRUOnAdd(d, blockID) ==
    IF blockID \in d.orderNodes
    THEN [d EXCEPT !.accessOrder = <<blockID>> \o Without(@, blockID)]
    ELSE [accessOrder |-> <<blockID>> \o d.accessOrder,
          orderNodes |-> d.orderNodes \cup {blockID}]

\* A debug Evict that hands out the tail whether the block map has it or not.
RECURSIVE DebugLRUEvictUnchecked(_, _)
DebugLRUEvictUnchecked(d, blocks) ==
    IF Len(d.accessOrder) = 0
    THEN [p |-> d, id |-> Absent, dropped |-> <<>>]
    ELSE LET n == Len(d.accessOrder)
             lruBlockID == d.accessOrder[n]
         IN  [p |-> [accessOrder |-> SubSeq(d.accessOrder, 1, n - 1),
                     orderNodes |-> d.orderNodes \ {lruBlockID}],
              id |-> lruBlockID, dropped |-> <<>>]

\* dropped: the stale tails removed on the way, in the order they were removed.
RECURSIVE DebugLRUEvict(_, _)
DebugLRUEvict(d, blocks) ==
    IF Len(d.accessOrder) = 0
    THEN [p |-> d, id |-> Absent, dropped |-> <<>>]
    ELSE LET n == Len(d.accessOrder)
             lruBlockID == d.accessOrder[n]
             rest == [accessOrder |-> SubSeq(d.accessOrder, 1, n - 1),
                      orderNodes |-> d.orderNodes \ {lruBlockID}]
         IN  IF lruBlockID \notin DOMAIN blocks
             THEN LET r == DebugLRUEvict(rest, blocks)
                  IN  [r EXCEPT !.dropped = <<lruBlockID>> \o @]
             ELSE [p |-> rest, id |-> lruBlockID, dropped |-> <<>>]

DebugLRUUpdateOnAccess(d, block) ==
    LET blockID == block.HashID
        q == IF blockID \in d.orderNodes
             THEN [d EXCEPT !.accessOrder = <<blockID>> \o Without(@, blockID)]
             ELSE [accessOrder |-> <<blockID>> \o d.accessOrder,
                   orderNodes |-> d.orderNodes \cup {blockID}]
    IN  [p |-> q, block |-> [block EXCEPT !.HitCount = @ + 1]]

\* Operations of one comparison.
MaxCompare == 6

\* CompareWithStandardLRU with any operation sequence: wellFormed says that so
\* far every add named an ID neither policy tracked, every access an ID both
\* tracked, and the block map lost only evicted IDs.
InitCompare ==
    /\ app = [fn |-> "compare", standardLRU |-> NewLRUEviction,
              debugLRU |-> NewDebugLRUEviction, blocks |-> EmptyFun,
              wellFormed |-> TRUE, ops |-> 0, op |-> "none",
              standardEvict |-> Absent, debugEvict |-> Absent, dropped |-> <<>>,
              debugBefore |-> NewDebugLRUEviction, blocksBefore |-> {}]
    /\ simNodes = <<>>
    /\ nodes = EmptyFun
    /\ sel = NewSelector("Random")
    /\ stats = [TotalRequests |-> 0, TotalHits |-> 0, TotalMisses |-> 0]
    /\ nodeStats = EmptyFun
    /\ last = NoResult
    /\ short = [id \in IDsOf(NodeNames) |-> "none"]
    /\ calls = 0
    /\ offered = 0
    /\ HarnessIdle
    /\ run = NoRun

EnsureBlock(blocks, blockID) ==
    IF blockID \in DOMAIN blocks THEN blocks
    ELSE Put(blocks, blockID, [HashID |-> blockID, HitCount |-> 0])

CompareAdd(blockID) ==
    /\ app.fn = "compare"
    /\ app.ops < MaxCompare
    /\ app' = [app EXCEPT
                 !.blocks = EnsureBlock(@, blockID),
                 !.standardLRU = LRUOnAdd(@, blockID),
                 !.debugLRU = DebugLRUOnAdd(@, blockID),
                 !.wellFormed = @ /\ blockID \notin ListIDs(app.standardLRU.order)
                                  /\ blockID \notin app.debugLRU.orderNodes,
                 !.ops = @ + 1, !.op = "add"]
    /\ UNCHANGED <<simNodes, nodes, sel, stats, nodeStats, last, short, calls, offered,
                   hp, hb, ho, hlast, run>>

CompareAccess(blockID) ==
    /\ app.fn = "compare"
    /\ app.ops < MaxCompare
    /\ LET blocks == EnsureBlock(app.blocks, blockID)
           s == LRUUpdateOnAccess(app.standardLRU, blocks[blockID])
           d == DebugLRUUpdateOnAccess(app.debugLRU, s.block)
       IN  app' = [app EXCEPT
                     !.blocks = Put(blocks, blockID, d.block),
                     !.standardLRU = s.p,
                     !.debugLRU = d.p,
                     !.wellFormed = @ /\ HasMarked(app.standardLRU.order, blockID)
                                      /\ blockID \in app.debugLRU.orderNodes,
                     !.ops = @ + 1, !.op = "access"]
    /\ UNCHANGED <<simNodes, nodes, sel, stats, nodeStats, last, short, calls, offered,
                   hp, hb, ho, hlast, run>>

CompareEvict ==
    /\ app.fn = "compare"
    /\ app.ops < MaxCompare
    /\ LET s == LRUEvict(app.standardLRU)
           d == DebugLRUEvict(app.debugLRU, app.blocks)
       IN  app' = [app EXCEPT
                     !.standardLRU = s.p,
                     !.debugLRU = d.p,
                     !.blocks = IF s.id # Absent THEN Drop(@, s.id) ELSE @,
                     !.standardEvict = s.id,
                     !.debugEvict = d.id,
                     !.dropped = d.dropped,
                     !.debugBefore = app.debugLRU,
                     !.blocksBefore = DOMAIN app.blocks,
                     !.ops = @ + 1, !.op = "evict"]
    /\ UNCHANGED <<simNodes, nodes, sel, stats, nodeStats, last, short, calls, offered,
                   hp, hb, ho, hlast, run>>

\* The block map loses a block behind the policies' back, the way migrateBlocks
\* takes blocks out of a node's cache.
CompareLose(blockID) ==
    /\ app.fn = "compare"
    /\ app.ops < MaxCompare
    /\ blockID \in DOMAIN app.blocks
    /\ app' = [app EXCEPT !.blocks = Drop(@, blockID), !.wellFormed = FALSE,
                          !.ops = @ + 1, !.op = "lose"]
    /\ UNCHANGED <<simNodes, nodes, sel, stats, nodeStats, last, short, calls, offered,
                   hp, hb, ho, hlast, run>>

NextCompare ==
    \/ \E blockID \in HarnessIDs : CompareAdd(blockID)
    \/ \E blockID \in HarnessIDs : CompareAccess(blockID)
    \/ CompareEvict
    \/ \E blockID \in HarnessIDs : CompareLose(blockID)

SpecCompare == InitCompare /\ [][NextCompare]_vars

\* ------------------------------------------------------------- single calls

\* One function of the selectors called on its own, on inputs built the way the
\* program builds them.
MaxBlocks == 10

\* The node after misses admitted blocks 0 .. n-1.
RECURSIVE Grown(_, _)
Grown(n, policy) ==
    IF n = 0 THEN NewNode(500, n, policy)
    ELSE AdmitBlock([Grown(n - 1, policy) EXCEPT !.MaxMemoryMB = n], n - 1)

\* The node after one hit on each block of ids.
RECURSIVE Touched(_, _)
Touched(node, ids) ==
    IF ids = {} THEN node
    ELSE LET id == CHOOSE x \in ids : \A y \in ids : x <= y
             u == UpdateOnAccess(node.ev, node.blocks[id])
         IN  Touched([node EXCEPT !.blocks[id] = u.block, !.ev = u.p, !.TotalHits = @ + 1],
                     ids \ {id})

InitSelectBlocks ==
    \E n \in 1..MaxBlocks : \E hot \in SUBSET (0..(n - 1)) :
        app = [fn |-> "selectBlocksForMigration", node |-> Touched(Grown(n, "LRU"), hot),
               done |-> FALSE, out |-> <<>>]

CallSelectBlocks ==
    /\ app.fn = "selectBlocksForMigration"
    /\ ~app.done
    /\ \E ids \in selectBlocksForMigration(app.node) :
          app' = [app EXCEPT !.done = TRUE, !.out = ids]
    /\ UNCHANGED <<simNodes, nodes, sel, stats, nodeStats, last, short, calls, offered,
                   hp, hb, ho, hlast, run>>

\* The longest request a single call is given.
MaxLen == 9

\* The node after misses admitted the blocks of ids, lowest ID first.
RECURSIVE Holding(_, _)
Holding(ids, policy) ==
    IF ids = {} THEN NewNode(500, 0, policy)
    ELSE LET id == CHOOSE x \in ids : \A y \in ids : y <= x
         IN  AdmitBlock([Holding(ids \ {id}, policy) EXCEPT !.MaxMemoryMB = Cardinality(ids)],
                        id)

\* The request 0, 1, .., len-1.
Counting(len) == [i \in 1..len |-> i - 1]

InitPrefixScore ==
    \E len \in 0..MaxLen : \E ids \in SUBSET (0..(len - 1)) :
        app = [fn |-> "calculatePrefixScore", request |-> Counting(len),
               node |-> Holding(ids, "LRU"), done |-> FALSE, out |-> Rat(0, 1)]

CallPrefixScore ==
    /\ app.fn = "calculatePrefixScore"
    /\ ~app.done
    /\ app' = [app EXCEPT !.done = TRUE, !.out = calculatePrefixScore(app.request, app.node)]
    /\ UNCHANGED <<simNodes, nodes, sel, stats, nodeStats, last, short, calls, offered,
                   hp, hb, ho, hlast, run>>

\* Hot-spot intensities on both sides of every step of the replication factor,
\* in hundredths.
Intensities == {0, 9, 10, 15, 20, 49, 50, 100}

\* Queue lengths and block sets of the nodes a target choice is made among.
QueueLengths == {0, 1}

BlockSets == {{}, {0}, {0, 1}}

\* A node holding the blocks of ids with qlen requests queued.
Loaded(ids, qlen) == [Holding(ids, "LRU") EXCEPT !.queue = [i \in 1..qlen |-> <<0>>]]

InitTargets ==
    \E n \in 1..Len(NodeNames) :
        \E qs \in [IDsOf(NodeListOf(n)) -> QueueLengths],
           bs \in [IDsOf(NodeListOf(n)) -> BlockSets],
           source \in IDsOf(NodeListOf(n)), k \in Intensities :
            app = [fn |-> "selectOptimalTargetNodes",
                   cluster |-> [id \in IDsOf(NodeListOf(n)) |-> Loaded(bs[id], qs[id])],
                   nl |-> NodeListOf(n), source |-> source,
                   pattern |-> [Intensity |-> Rat(k, 100)],
                   done |-> FALSE, factor |-> 0, out |-> <<>>]

\* The current-hotspot branch of executeHotspotMigrationWithPrediction up to the
\* choice of targets.
CallTargets ==
    /\ app.fn = "selectOptimalTargetNodes"
    /\ ~app.done
    /\ app' = [app EXCEPT
                  !.done = TRUE,
                  !.factor = calculateDynamicReplicationFactor(app.pattern, Len(app.nl)),
                  !.out = selectOptimalTargetNodes(
                              app.cluster, app.source, app.nl,
                              calculateDynamicReplicationFactor(app.pattern, Len(app.nl)))]
    /\ UNCHANGED <<simNodes, nodes, sel, stats, nodeStats, last, short, calls, offered,
                   hp, hb, ho, hlast, run>>

\* Cluster sizes and block sets a replication is run on: a source and one to
\* three other nodes, of one common MaxCacheSize, which some fill and some,
\* admitting blocks on memory alone, exceed.
ReplicaClusters == {2, 3, 4}

ReplicaBlockSets == {{}, {0}, {2}, {0, 1}}

InitReplicate ==
    \E n \in ReplicaClusters, maxCache \in {1, 2} :
        \E bs \in [IDsOf(NodeListOf(n)) -> ReplicaBlockSets], source \in IDsOf(NodeListOf(n)) :
            /\ app = [fn |-> "executeHotspotMigrationWithPrediction",
                      cluster |-> [id \in IDsOf(NodeListOf(n)) |->
                                      [Holding(bs[id], "LRU") EXCEPT
                                          !.MaxCacheSize = maxCache,
                                          !.metrics = NewHotspotMetrics]],
                      nl |-> NodeListOf(n), source |-> source,
                      key |-> hashIDsToKey(<<0, 1>>),
                      pattern |-> [NewPrefixPattern(<<0, 1>>) EXCEPT !.Intensity = Rat(1, 2)],
                      done |-> FALSE, out |-> EmptyFun]

CallReplicate ==
    /\ app.fn = "executeHotspotMigrationWithPrediction"
    /\ ~app.done
    /\ app' = [app EXCEPT
                  !.done = TRUE,
                  !.out = executeHotspotMigrationWithPrediction(
                              app.cluster, app.key, app.pattern, app.source, app.nl,
                              "current_hotspot", 1)]
    /\ UNCHANGED <<simNodes, nodes, sel, stats, nodeStats, last, short, calls, offered,
                   hp, hb, ho, hlast, run>>

InitCalls ==
    /\ \/ InitSelectBlocks
       \/ InitPrefixScore
       \/ InitTargets
       \/ InitReplicate
    /\ simNodes = <<>>
    /\ nodes = EmptyFun
    /\ sel = NewSelector("HotspotMigration")
    /\ stats = [TotalRequests |-> 0, TotalHits |-> 0, TotalMisses |-> 0]
    /\ nodeStats = EmptyFun
    /\ last = NoResult
    /\ short = [id \in IDsOf(NodeNames) |-> "none"]
    /\ calls = 0
    /\ offered = 0
    /\ HarnessIdle
    /\ run = NoRun

NextCalls ==
    \/ CallSelectBlocks
    \/ CallPrefixScore
    \/ CallTargets
    \/ CallReplicate

SpecCalls == InitCalls /\ [][NextCalls]_vars

\* ------------------------------------------------------------------ properties

\* The node's policy holds exactly the keys of its block map, each once.
Mirrors(node) ==
    /\ PolicyIDs(node.ev) = Cached(node)
    /\ \A e1, e2 \in PolicyElems(node.ev) :
          PolicyElemID(node.ev, e1) = PolicyElemID(node.ev, e2) => e1 = e2

\* C1: after every ProcessRequest call, on every node, with any selector and
\* any policy, the block IDs held in the eviction policy's structures are
\* exactly the keys of the node's block map, and each ID is held exactly once.
C1_PolicyMirrorsBlockMap == \A id \in DOMAIN nodes : Mirrors(nodes[id])

C3_BlockCountWithinMaxCacheSize ==
    \A id \in DOMAIN nodes : Cardinality(Cached(nodes[id])) <= nodes[id].MaxCacheSize

RECURSIVE SumOver(_, _)
SumOver(f, ids) ==
    IF ids = {} THEN 0
    ELSE LET id == CHOOSE x \in ids : TRUE
         IN  f[id] + SumOver(f, ids \ {id})

\* C4: the nodes' TotalHits + TotalMisses summed over all nodes, the
\* processor's global TotalHits + TotalMisses, and the per-node records' sum
\* all equal the sum of len(hash_ids) over the requests that returned a
\* result; each result has CacheHits + CacheMisses = len(hash_ids).
C4_HitsPlusMissesIsBlocksOffered ==
    /\ SumOver([id \in DOMAIN nodes |-> nodes[id].TotalHits + nodes[id].TotalMisses],
               DOMAIN nodes) = offered
    /\ stats.TotalHits + stats.TotalMisses = offered
    /\ SumOver([id \in DOMAIN nodeStats |->
                  nodeStats[id].TotalHits + nodeStats[id].TotalMisses],
               DOMAIN nodeStats) = offered
    /\ last.status = "ok" => last.CacheHits + last.CacheMisses = Len(last.request)

\* Hits and misses on more than one node, with a failed call in between.
C4_Witness ==
    /\ stats.TotalHits > 0
    /\ stats.TotalMisses > 0
    /\ calls > stats.TotalRequests
    /\ Cardinality(DOMAIN nodeStats) > 1
    /\ offered >= 5

\* C5: on an LRUEviction driven by any sequence of OnAdd, UpdateOnAccess and
\* Evict, whatever IDs are added or accessed, Evict returns the held ID whose
\* latest access (or OnAdd, if never accessed since) is the least recent.
C5_LRUEvictsLeastRecent ==
    (hp.kind = "LRU" /\ hlast.op = "evict" /\ hlast.held # {}) => hlast.ret = hlast.expLRU

\* C6: on an LFUEviction driven by OnAdd, UpdateOnAccess and Evict (every
\* OnAdd naming an ID not currently held), Evict returns a held ID of minimal
\* access frequency since insertion, the earliest admitted to that frequency;
\* so no ID is the victim while an ID of strictly lower frequency is held.
C6_LFUEvictsLeastFrequent ==
    (hp.kind = "LFU" /\ hlast.op = "evict" /\ hlast.held # {} /\ ~hlast.readded) =>
        /\ hlast.ret = hlast.expLFU
        /\ \A other \in hlast.held : hlast.freqs[hlast.ret] <= hlast.freqs[other]

\* C7: on a FIFOEviction driven by any sequence of OnAdd, UpdateOnAccess and
\* Evict, Evict returns the ID that was OnAdd-ed earliest among the IDs
\* currently held; UpdateOnAccess adds one to the block's hit counter and
\* leaves the eviction order as it was.
C7_FIFOEvictsEarliestAdded ==
    /\ (hp.kind = "FIFO" /\ hlast.op = "evict" /\ hlast.held # {}) =>
          hlast.ret \in hlast.expFIFO
    /\ (hp.kind = "FIFO" /\ hlast.op = "access") =>
          (hlast.orderKept /\ hlast.hitDelta = 1)

\* C8: when every block ID of the request is in the selected node's block
\* map as ProcessRequest walks it, the call leaves that node's key set,
\* UsedMemoryMB and evicted-blocks counter unchanged, adds len(hash_ids) to
\* the node's hits and nothing to its misses.
C8_ReprocessingIdempotent ==
    (last.status = "ok" /\ last.allCached) =>
        LET node == nodes[last.node]
        IN  /\ Cached(node) = last.pre.keys
            /\ node.used = last.pre.used
            /\ Evicted(nodeStats, last.node) = last.pre.evicted
            /\ node.TotalHits = last.pre.TotalHits + Len(last.request)
            /\ node.TotalMisses = last.pre.TotalMisses
            /\ last.CacheHits = Len(last.request)
            /\ last.CacheMisses = 0

\* A request of several blocks, all of them cached on the node that serves it.
C8_Witness ==
    /\ last.status = "ok"
    /\ last.allCached
    /\ Len(last.request) >= 2
    /\ nodes[last.node].TotalHits >= Len(last.request)

\* C9: a ProcessRequest call over an empty node list ends in the error (the
\* selector returned nil), and changes nothing: the nodes, the processor's
\* statistics and per-node records, and the selector's counters and history
\* are as before the call.
C9_NoNodeAvailableChangesNothing ==
    [][ProcessNoNodes =>
          /\ last'.status = "error"
          /\ UNCHANGED <<nodes, sel, stats, nodeStats, offered>>]_vars

\* A failed call after requests were served, under a selector that counts.
C9_Witness ==
    /\ last.status = "error"
    /\ stats.TotalRequests >= 2
    /\ sel.kind \in {"HotspotMigration", "PrefixAware"}
    /\ sel.requestCounter + sel.accessCounter >= 2

\* C10: when the policy returns -1 during a miss while the node lacks memory
\* for the new block, ProcessRequest still admits the block (in the map,
\* known to the policy, its memory added), counts the miss and returns a
\* result; a request [0,1] on an empty node yields two misses.
C10_EvictionExhaustedSurvivable ==
    /\ last.exhausted =>
          /\ last.status = "ok"
          /\ last.survived
          /\ last.CacheMisses >= 1
          /\ last.CacheHits + last.CacheMisses = Len(last.request)
    /\ (last.status = "ok" /\ last.request = <<0, 1>> /\ last.pre.keys = {}) =>
          last.CacheMisses = 2

\* A call during which the policy returned -1 under memory pressure, leaving
\* the node above its memory limit.
C10_Witness ==
    /\ last.status = "ok"
    /\ last.exhausted
    /\ nodes[last.node].used > MemUnits(nodes[last.node])

\* C11: ProcessRequest returns on every input: each reclaim loop ends (by room
\* for the block, by an empty map or by the policy's -1), also when the policy
\* hands out IDs the map no longer holds, and the LFU minimum-frequency scan
\* ends (at a non-empty group or at the ceiling).
C11_MissTerminates == (run.pc # "idle") ~> (run.pc = "idle")

\* A miss that finished after the LFU scan ran and after the policy handed out
\* an ID the map did not hold.
C11_Witness ==
    /\ run.pc = "idle"
    /\ run.misses >= 2
    /\ run.scanned
    /\ run.stale

\* The node the last call selected, as a position of the node list.
SelectedPos == CHOOSE k \in 1..Len(simNodes) : simNodes[k] = last.node

\* vals[k] is maximal and no earlier position reaches it.
IsFirstMax(vals, k) ==
    /\ \A j \in 1..Len(vals) : vals[j] <= vals[k]
    /\ \A j \in 1..(k - 1) : vals[j] < vals[k]

\* Positions of the request whose ID is among the keys.
HitsIn(request, keys) == Cardinality({i \in 1..Len(request) : request[i] \in keys})

\* 10 * (hit - 10 * load) with load = qlen / 100, as an integer.
CacheAwareValue(view, request) == 10 * HitsIn(request, view.keys) - view.qlen

RECURSIVE QueuedIn(_, _)
QueuedIn(view, ids) ==
    IF ids = {} THEN 0
    ELSE LET id == CHOOSE x \in ids : TRUE
         IN  view[id].qlen + QueuedIn(view, ids \ {id})

\* alpha*hit/len - beta*normalized_load for alpha = 0.6, beta = 0.8, times the
\* common positive factor 10 * len * Q (Q = queued requests in the cluster,
\* n = nodes): 6*hit*Q - 8*qlen*n*len; with Q = 0 every load is 0: 6*hit.
EnhancedValue(view, id, request) ==
    LET total == QueuedIn(view, DOMAIN view)
    IN  IF total > 0
        THEN 6 * HitsIn(request, view[id].keys) * total
               - 8 * view[id].qlen * Cardinality(DOMAIN view) * Len(request)
        ELSE 6 * HitsIn(request, view[id].keys)

RECURSIVE BlocksIn(_, _)
BlocksIn(view, ids) ==
    IF ids = {} THEN 0
    ELSE LET id == CHOOSE x \in ids : TRUE
         IN  Cardinality(view[id].keys) + BlocksIn(view, ids \ {id})

\* alpha*hit/len - beta*qlen/base - max(0, count/T - 0.7)*2 for alpha = 0.6,
\* beta = 0.8, times the common positive factor 10 * base * len * T (T = blocks
\* in the cluster; with T = 0 the ratio is 0 and the factor 10 * base * len).
MigrationValue(view, id, request, base) ==
    LET total == BlocksIn(view, DOMAIN view)
        count == Cardinality(view[id].keys)
        hit == HitsIn(request, view[id].keys)
        len == Len(request)
    IN  IF total = 0
        THEN 6 * base * hit - 8 * view[id].qlen * len
        ELSE 6 * base * hit * total - 8 * view[id].qlen * len * total
               - (IF 10 * count > 7 * total
                  THEN 2 * base * len * (10 * count - 7 * total) ELSE 0)

\* C14: the hot-spot migration selector returns the first node of the list
\* maximising alpha*hit_ratio - beta*load - penalty with load = len(queue)/100
\* and penalty = max(0, concentration_ratio - migration_threshold) * 2.
C14_MigrationScoreArgmax ==
    (sel.kind = "HotspotMigration" /\ last.status = "ok") =>
        IsFirstMax([j \in 1..Len(simNodes) |->
                       MigrationValue(last.at, simNodes[j], last.request, 100)],
                   SelectedPos)

\* Product of 100 + qlen over the nodes of the view.
RECURSIVE LoadProduct(_, _)
LoadProduct(view, ids) ==
    IF ids = {} THEN 1
    ELSE LET id == CHOOSE x \in ids : TRUE
         IN  (100 + view[id].qlen) * LoadProduct(view, ids \ {id})

\* Length of the longest prefix of the request's first MaxPrefixLength IDs
\* that lies within the keys; requests of one ID have no prefix.
PrefixRun(request, keys) ==
    IF Len(request) < 2 THEN 0
    ELSE Cardinality({k \in 1..min(MaxPrefixLength, Len(request)) :
                         \A i \in 1..k : request[i] \in keys})

\* alpha*hit/len + gamma*run/MaxPrefixLength + beta/(1 + qlen/100) for
\* alpha = 0.5, gamma = 0.8, beta = 0.6 and MaxPrefixLength = 8, times the
\* common positive factor 10 * len * (product of 100 + qlen over the nodes).
PrefixValue(view, id, request) ==
    (5 * HitsIn(request, view[id].keys) + Len(request) * PrefixRun(request, view[id].keys))
        * LoadProduct(view, DOMAIN view)
      + 600 * Len(request) * LoadProduct(view, DOMAIN view \ {id})

\* The cluster of the example: the first node holds blocks 0..4, the second
\* 5..9, queues empty.
ExampleCluster ==
    [id \in DOMAIN nodes |->
        IF id = simNodes[1]
        THEN [nodes[id] EXCEPT !.blocks = [b \in 0..4 |-> Block(b, 1, b + 1)]]
        ELSE [nodes[id] EXCEPT !.blocks = [b \in 5..9 |-> Block(b, 1, b - 4)]]]

DeterministicKinds == {"CacheAware", "Enhanced", "HotspotMigration", "PrefixAware"}

\* C16: for the non-random selectors, two invocations of SelectNode on the same
\* node state with the same request return the same node: two copies run from
\* the same state, and two consecutive calls on one selector instance (the
\* second call made by the selector as the first call left it).
C16_SelectorDeterminism ==
    sel.kind \in DeterministicKinds =>
        \A request \in Requests :
            \A o1 \in SelectNode(nodes, sel, request, simNodes) :
                /\ \A o2 \in SelectNode(nodes, sel, request, simNodes) :
                       o2.selected = o1.selected
                /\ \A o3 \in SelectNode(nodes, o1.sel, request, simNodes) :
                       o3.selected = o1.selected

\* Block counts before the call, and the two classes of checkAndMigrateHotspots:
\* ratio > 0.7 and ratio < 0.35, ratio = count / total.
CountOf(id) == Cardinality(Cached(nodes[id]))

RECURSIVE TotalOf(_)
TotalOf(ids) ==
    IF ids = {} THEN 0
    ELSE LET id == CHOOSE x \in ids : TRUE IN CountOf(id) + TotalOf(ids \ {id})

Overloaded(id) == 10 * CountOf(id) > 7 * TotalOf(DOMAIN nodes)

Underloaded(id) == ~Overloaded(id) /\ 20 * CountOf(id) < 7 * TotalOf(DOMAIN nodes)

\* This step is a SelectNode call of the migrating selector at a migration
\* point, in a state with an overloaded and an underloaded node.
MigrationRuns ==
    /\ sel.kind = "HotspotMigration"
    /\ sel'.requestCounter = sel.requestCounter + 1
    /\ sel'.requestCounter % MigrationInterval = 0
    /\ \E id \in DOMAIN nodes : Overloaded(id)
    /\ \E id \in DOMAIN nodes : Underloaded(id)

\* The record this step appended.
NewRecord == sel'.migrationHistory[Len(sel'.migrationHistory)]

\* The target held none of the migrated blocks and has room for all of them.
TargetTakesAll(rec) ==
    /\ \A i \in 1..Len(rec.MigratedBlocks) :
           rec.MigratedBlocks[i] \notin Cached(nodes[rec.TargetNode])
    /\ CountOf(rec.TargetNode) + Len(rec.MigratedBlocks) <= nodes[rec.TargetNode].MaxCacheSize

\* One record for the one overloaded source; the source lost blocks.
SourceShrinks ==
    /\ Len(sel'.migrationHistory) = Len(sel.migrationHistory) + 1
    /\ Overloaded(NewRecord.SourceNode)
    /\ Underloaded(NewRecord.TargetNode)
    /\ Cardinality(last'.at[NewRecord.SourceNode].keys) < CountOf(NewRecord.SourceNode)

TargetGrows ==
    Cardinality(last'.at[NewRecord.TargetNode].keys) > CountOf(NewRecord.TargetNode)

\* C17: whenever the concentration migration runs with an overloaded and an
\* underloaded node, for each overloaded source one record is appended, the
\* source's block count strictly decreases and its target's block count
\* strictly increases.
C17_MigrationShiftsBlocks ==
    [][MigrationRuns => (SourceShrinks /\ TargetGrows)]_vars

\* C17, amended: the record is appended and the source's block count strictly
\* decreases; the target's block count strictly increases when the target
\* held none of the migrated blocks and has room for them within MaxCacheSize.
C17_MigrationShiftsBlocksIfRoom ==
    [][MigrationRuns => (SourceShrinks /\ (TargetTakesAll(NewRecord) => TargetGrows))]_vars

\* A migration of this call moved blocks the target did not hold: they are on
\* the target and no longer on the source.
C17_Witness ==
    /\ sel.kind = "HotspotMigration"
    /\ last.status = "ok"
    /\ Len(sel.migrationHistory) >= 1
    /\ LET rec == sel.migrationHistory[Len(sel.migrationHistory)]
       IN  /\ rec.RequestId = sel.requestCounter
           /\ \A i \in 1..Len(rec.MigratedBlocks) :
                  /\ rec.MigratedBlocks[i] \in last.at[rec.TargetNode].keys
                  /\ rec.MigratedBlocks[i] \notin last.at[rec.SourceNode].keys
           /\ Cardinality(last.at[rec.TargetNode].keys) = Len(rec.MigratedBlocks)

\* The blocks of new that old did not hold as they are now.
InsertedIn(old, new) ==
    {id \in Cached(new) : id \notin Cached(old) \/ new.blocks[id] # old.blocks[id]}

\* The policy after OnAdd for the IDs whose blocks carry the sequence numbers
\* from + 1 up to to, in that order.
RECURSIVE AddedInOrder(_, _, _, _)
AddedInOrder(p, blocks, from, to) ==
    IF from >= to THEN p
    ELSE AddedInOrder(OnAdd(p, CHOOSE id \in DOMAIN blocks : blocks[id].CreateSeq = from + 1),
                      blocks, from + 1, to)

\* What a replicating migration may do to a node that is not its source: every
\* block it stored is a fresh record, numbered by the node's counter as it
\* was incremented for that block, and the policy was told in that order.
FreshCopies(old, new) ==
    /\ Cached(old) \subseteq Cached(new)
    /\ new.seqCounter = old.seqCounter + Cardinality(InsertedIn(old, new))
    /\ \A id \in InsertedIn(old, new) :
          /\ new.blocks[id].HashID = id
          /\ new.blocks[id].HitCount = 1
          /\ new.blocks[id].CreateSeq = new.blocks[id].AccessSeq
          /\ new.blocks[id].CreateSeq \in (old.seqCounter + 1)..new.seqCounter
    /\ \A k \in (old.seqCounter + 1)..new.seqCounter :
          Cardinality({id \in InsertedIn(old, new) : new.blocks[id].CreateSeq = k}) = 1
    /\ new.ev = AddedInOrder(old.ev, new.blocks, old.seqCounter, new.seqCounter)
    /\ new.used = old.used

\* The replicating migration of a recorded prefix pattern from its node, run
\* on the present cluster.
Replicated(src, key, reason) ==
    executeHotspotMigrationWithPrediction(nodes, key, nodes[src].metrics.PrefixPatterns[key],
                                          src, simNodes, reason, sel.accessCounter + 1)

ReplicationReasons == {"current_hotspot", "predicted_hotspot"}

\* C18: the prefix-aware replicating migration copies and never moves: the
\* source's block map is left as it was, and every block stored on a target is
\* a fresh record with hit count 1 and both sequence numbers equal to the
\* target's counter after its increment, the target's policy receiving OnAdd.
C18_ReplicationCopies ==
    sel.kind = "PrefixAware" =>
        \A src \in DOMAIN nodes, reason \in ReplicationReasons :
            \A key \in DOMAIN nodes[src].metrics.PrefixPatterns :
                /\ Replicated(src, key, reason)[src].blocks = nodes[src].blocks
                /\ Replicated(src, key, reason)[src].ev = nodes[src].ev
                /\ \A t \in DOMAIN nodes \ {src} :
                       FreshCopies(nodes[t], Replicated(src, key, reason)[t])

\* A cluster on which replication has happened and a recorded pattern whose
\* replication would store a block over one the target already holds.
C18_Witness ==
    /\ sel.kind = "PrefixAware"
    /\ \E src \in DOMAIN nodes :
          /\ Len(nodes[src].metrics.MigrationHistory) >= 1
          /\ \E key \in DOMAIN nodes[src].metrics.PrefixPatterns, t \in DOMAIN nodes \ {src} :
                \E id \in InsertedIn(nodes[t], Replicated(src, key, "current_hotspot")[t]) :
                    /\ id \in Cached(nodes[t])
                    /\ nodes[src].blocks[id].HitCount > 1

\* s is an initial segment of t.
IsPrefixOf(s, t) == Len(s) <= Len(t) /\ SubSeq(t, 1, Len(s)) = s

\* C19: the migrating selector's migrationHistory is append-only: the history
\* after a call has the history before it as a prefix, and the RequestId
\* fields of successive entries never decrease.
C19_HistoryAppendOnly ==
    [][sel.kind = "HotspotMigration" =>
          /\ IsPrefixOf(sel.migrationHistory, sel'.migrationHistory)
          /\ \A i \in 1..(Len(sel'.migrationHistory) - 1) :
                 sel'.migrationHistory[i].RequestId <= sel'.migrationHistory[i + 1].RequestId]_vars

\* Two migrations recorded at different calls.
C19_Witness ==
    /\ sel.kind = "HotspotMigration"
    /\ Len(sel.migrationHistory) >= 2
    /\ sel.migrationHistory[1].RequestId < sel.migrationHistory[2].RequestId

\* The sequence counters after the step: none fell, and the serving node's
\* rose by one for every miss of the call, counted from what SelectNode left.
CountersAdvance ==
    /\ \A id \in DOMAIN nodes : nodes'[id].seqCounter >= nodes[id].seqCounter
    /\ last'.status = "ok" =>
          nodes'[last'.node].seqCounter
              = last'.at[last'.node].seqCounter + last'.CacheMisses

\* The IDs of the call that the serving node did not hold when it was
\* selected (each was inserted by a miss) and that it holds after the call.
MissInserted ==
    {last'.request[i] : i \in 1..Len(last'.request)}
        \cap (Cached(nodes'[last'.node]) \ last'.at[last'.node].keys)

\* The blocks the misses of the call left on the serving node carry distinct
\* creation numbers, all drawn from the counter's values during the call.
MissStampsDistinct ==
    last'.status = "ok" =>
        /\ \A a \in MissInserted :
               nodes'[last'.node].blocks[a].CreateSeq
                   \in (last'.at[last'.node].seqCounter + 1)..nodes'[last'.node].seqCounter
        /\ \A a, b \in MissInserted :
               a # b => nodes'[last'.node].blocks[a].CreateSeq
                           # nodes'[last'.node].blocks[b].CreateSeq

\* No resident block is numbered beyond its node's counter.
StampsWithinCounter ==
    \A id \in DOMAIN nodes' :
        \A b \in Cached(nodes'[id]) : nodes'[id].blocks[b].CreateSeq <= nodes'[id].seqCounter

\* C20: a node's sequence counter never decreases and rises by exactly one at
\* every block insertion by a miss, so blocks inserted by misses on one node
\* carry different creation numbers and every resident block's creation
\* number is at most its node's counter.
C20_SeqCounterMonotonic ==
    [][CountersAdvance /\ MissStampsDistinct /\ StampsWithinCounter]_vars

\* ------------------------------------------------------- properties: C21..C30

\* The queue a node holds after one more request was routed to it: the request is
\* added at the end and, once more than 100 are held, the oldest is dropped.
QueueAfter(queue, request) ==
    IF Len(queue) < 100 THEN queue \o <<request>> ELSE Tail(queue) \o <<request>>

\* C21: after every ProcessRequest call that returned a result, the selected
\* node's queue is its queue before the call with the request added at the end and
\* the oldest entry dropped once 100 are held: it ends with the request just
\* processed, holds at most 100 entries, holds min(100, requests routed to the node)
\* of them, and no node's queue gets shorter.
C21_QueueKeepsLatest ==
    [][last'.status = "ok" =>
          /\ nodes'[last'.node].queue
                = QueueAfter(nodes[last'.node].queue, last'.request)
          /\ nodes'[last'.node].queue[Len(nodes'[last'.node].queue)] = last'.request
          /\ Len(nodes'[last'.node].queue) <= 100
          /\ Len(nodes'[last'.node].queue)
                = min(100, nodeStats'[last'.node].TotalRequests)
          /\ \A id \in DOMAIN nodes :
                /\ Len(nodes'[id].queue) >= Len(nodes[id].queue)
                /\ id # last'.node => nodes'[id].queue = nodes[id].queue]_vars

\* A request was routed to a node whose queue already held 100 requests.
C21_Witness ==
    /\ last.status = "ok"
    /\ nodeStats[last.node].TotalRequests > 100
    /\ Len(nodes[last.node].queue) = 100
    /\ nodes[last.node].queue[100] = last.request

\* The selectors that never touch a node's block map.
PlainKinds == {"Random", "LoadBalanced", "CacheAware", "Enhanced"}

\* The request's IDs that were hits of the call just made and are still resident
\* on the selected node: the block admitted before the call is still the one held.
HitsOfCall(request, before, after) ==
    {id \in {request[i] : i \in 1..Len(request)} \cap DOMAIN before \cap DOMAIN after :
        after[id].CreateSeq = before[id].CreateSeq}

\* Every hit of the call added exactly one to the block's hit count, and a
\* one-block request that hit left the policy as one UpdateOnAccess leaves it.
HitCountsOnce ==
    [][(last'.status = "ok" /\ sel.kind \in PlainKinds) =>
          /\ \A id \in HitsOfCall(last'.request, nodes[last'.node].blocks,
                                  nodes'[last'.node].blocks) :
                nodes'[last'.node].blocks[id].HitCount
                    = nodes[last'.node].blocks[id].HitCount + 1
          /\ (Len(last'.request) = 1 /\ last'.CacheHits = 1) =>
                nodes'[last'.node].ev
                    = UpdateOnAccess(nodes[last'.node].ev,
                                     nodes[last'.node].blocks[last'.request[1]]).p]_vars

\* C22: on every cache hit, under FIFO, LRU and LFU alike, the block's last-access
\* sequence number is set to a newer value, its hit count rises by exactly one and
\* the policy is notified once.
C22_HitRefreshesAccessSeq ==
    [][(last'.status = "ok" /\ sel.kind \in PlainKinds) =>
          \A id \in HitsOfCall(last'.request, nodes[last'.node].blocks,
                               nodes'[last'.node].blocks) :
             /\ nodes'[last'.node].blocks[id].AccessSeq
                    > nodes[last'.node].blocks[id].AccessSeq
             /\ nodes'[last'.node].blocks[id].HitCount
                    = nodes[last'.node].blocks[id].HitCount + 1]_vars

\* The number of evictions charged to a node so far.
EvictionsOf(stat, id) == IF id \in DOMAIN stat THEN stat[id].EvictedBlocks ELSE 0

\* The blocks of node id that no eviction and no source-side removal touched in
\* the step: resident before the call and after the selector's migrations, on a
\* node that evicted nothing during the call.
Untouched(id) ==
    IF EvictionsOf(nodeStats', id) # EvictionsOf(nodeStats, id) THEN {}
    ELSE DOMAIN nodes[id].blocks \cap last'.at[id].keys \cap DOMAIN nodes'[id].blocks

\* C23: a block resident on a node keeps its record until it is evicted or removed
\* by a source-side migration: across any call in which neither happened to it,
\* the node holds the same record (same creation number) and the hit count has
\* not decreased, whatever hits, other requests or migrations onto the node
\* occurred.
C23_RecordPersists ==
    [][last'.status = "ok" =>
          \A id \in DOMAIN nodes : \A b \in Untouched(id) :
             /\ nodes'[id].blocks[b].CreateSeq = nodes[id].blocks[b].CreateSeq
             /\ nodes'[id].blocks[b].HitCount >= nodes[id].blocks[b].HitCount]_vars

\* The same, under the selectors that never migrate.
RecordPersistsPlain ==
    [][(last'.status = "ok" /\ sel.kind \in PlainKinds) =>
          \A id \in DOMAIN nodes : \A b \in Untouched(id) :
             /\ nodes'[id].blocks[b].CreateSeq = nodes[id].blocks[b].CreateSeq
             /\ nodes'[id].blocks[b].HitCount >= nodes[id].blocks[b].HitCount]_vars

\* The record a SelectNode outcome appended to the selector's history.
AppendedBy(o) == o.sel.migrationHistory[Len(o.sel.migrationHistory)]

\* blk is a record created on a node whose counter went from seq0 to seq1: hit
\* count 1, both sequence numbers equal and taken from the counter in between.
FreshRecord(blk, seq0, seq1) ==
    /\ blk.HitCount = 1
    /\ blk.AccessSeq = blk.CreateSeq
    /\ blk.CreateSeq > seq0
    /\ blk.CreateSeq <= seq1

MigrationDue ==
    /\ (sel.requestCounter + 1) % MigrationInterval = 0
    /\ \E id \in DOMAIN nodes : Overloaded(id)
    /\ \E id \in DOMAIN nodes : Underloaded(id)

\* C25: a SelectNode call of the migrating selector on a non-empty node list adds
\* exactly one to the request counter; it changes a node or appends a migration
\* record only if the new counter is a multiple of the migration interval and some
\* node's concentration ratio exceeds the threshold while another's is below half
\* of it. Every other call leaves all nodes and the history as they were.
C25_MigrationOnlyWhenDue ==
    (sel.kind = "HotspotMigration" /\ Len(simNodes) > 0) =>
        \A request \in Requests : \A o \in SelectNode(nodes, sel, request, simNodes) :
            /\ o.sel.requestCounter = sel.requestCounter + 1
            /\ ~MigrationDue =>
                  /\ o.nodes = nodes
                  /\ o.sel.migrationHistory = sel.migrationHistory

\* A migration point with an overloaded and an underloaded node, where the call
\* moves blocks; and the selector has been through a call that was no migration
\* point.
C25_Witness ==
    /\ sel.kind = "HotspotMigration"
    /\ sel.requestCounter > 0
    /\ MigrationDue
    /\ \E o \in SelectNode(nodes, sel, <<2>>, simNodes) :
          /\ o.nodes # nodes
          /\ Len(o.sel.migrationHistory) = Len(sel.migrationHistory) + 1

\* C26: for a source node with n >= 1 blocks, selectBlocksForMigration returns
\* max(1, floor(0.2 n)) distinct blocks of the node, and every block it returns has
\* a hit count no higher than that of every block it leaves.
C26_LowestHitCountsSelected ==
    (app.fn = "selectBlocksForMigration" /\ app.done) =>
        /\ 5 * Len(app.out) <= IF Cardinality(DOMAIN app.node.blocks) < 5 THEN 5
                               ELSE Cardinality(DOMAIN app.node.blocks)
        /\ 5 * (Len(app.out) + 1) > IF Cardinality(DOMAIN app.node.blocks) < 5 THEN 5
                                    ELSE Cardinality(DOMAIN app.node.blocks)
        /\ Cardinality({app.out[i] : i \in 1..Len(app.out)}) = Len(app.out)
        /\ \A i \in 1..Len(app.out) :
              /\ app.out[i] \in DOMAIN app.node.blocks
              /\ \A b \in DOMAIN app.node.blocks \ {app.out[j] : j \in 1..Len(app.out)} :
                    app.node.blocks[app.out[i]].HitCount <= app.node.blocks[b].HitCount

\* Two blocks were selected from ten, among them blocks that were hit and blocks
\* that were not, and an unhit block was left behind.
C26_Witness ==
    /\ app.fn = "selectBlocksForMigration"
    /\ app.done
    /\ Cardinality(DOMAIN app.node.blocks) = 10
    /\ Len(app.out) = 2
    /\ \E b \in DOMAIN app.node.blocks : app.node.blocks[b].HitCount = 2
    /\ \E b \in DOMAIN app.node.blocks \ {app.out[1], app.out[2]} :
          app.node.blocks[b].HitCount = 1

\* C27: calculatePrefixScore returns r/8, where r is the length of the longest run
\* of cached IDs from the request's first position, within its first 8 IDs; it
\* returns 0 for a request of fewer than two IDs; the result lies in [0, 1].
C27_PrefixScoreIsRunOverEight ==
    (app.fn = "calculatePrefixScore" /\ app.done) =>
        /\ app.out.d > 0
        /\ 8 * app.out.n = PrefixRun(app.request, DOMAIN app.node.blocks) * app.out.d
        /\ Len(app.request) < 2 => app.out.n = 0
        /\ 0 <= app.out.n
        /\ app.out.n <= app.out.d

\* The score of a nine-ID request whose first eight IDs are all cached, and so is
\* the ninth: 1, the cap.
C27_Witness ==
    /\ app.fn = "calculatePrefixScore"
    /\ app.done
    /\ Len(app.request) = 9
    /\ DOMAIN app.node.blocks = 0..8
    /\ app.out.n = app.out.d

\* Position of a node in a node list.
PosIn(nl, id) == CHOOSE i \in 1..Len(nl) : nl[i] = id

\* The extra replicas of a hot spot of intensity n/d: 3 from 0.5, 2 from 0.2,
\* 1 from 0.1, else none.
ExtraReplicas(intensity) ==
    IF 2 * intensity.n >= intensity.d THEN 3
    ELSE IF 5 * intensity.n >= intensity.d THEN 2
    ELSE IF 10 * intensity.n >= intensity.d THEN 1
    ELSE 0

\* len(queue) + len(blocks)/max_cache_size, times max_cache_size.
LoadTimesCache(node) ==
    Len(node.queue) * node.MaxCacheSize + Cardinality(DOMAIN node.blocks)

\* Node a comes before node b by composite load, list order deciding ties.
LighterThan(cluster, nl, a, b) ==
    \/ LoadTimesCache(cluster[a]) < LoadTimesCache(cluster[b])
    \/ /\ LoadTimesCache(cluster[a]) = LoadTimesCache(cluster[b])
       /\ PosIn(nl, a) < PosIn(nl, b)

\* C28: for a current hot spot of intensity I on a cluster of n nodes the
\* replication factor is 1 + min(n - 1, k) with k = 3, 2, 1, 0 as I >= 0.5,
\* 0.2 <= I < 0.5, 0.1 <= I < 0.2, or below; the targets are exactly the factor - 1
\* nodes other than the source with the lowest composite load, list order deciding
\* ties; the source is never a target and there are at most n - 1 targets.
C28_ReplicationTargets ==
    (app.fn = "selectOptimalTargetNodes" /\ app.done) =>
        /\ app.factor = 1 + min(Len(app.nl) - 1, ExtraReplicas(app.pattern.Intensity))
        /\ Len(app.out) = app.factor - 1
        /\ Len(app.out) <= Len(app.nl) - 1
        /\ Cardinality({app.out[i] : i \in 1..Len(app.out)}) = Len(app.out)
        /\ \A i \in 1..Len(app.out) :
              /\ app.out[i] # app.source
              /\ app.out[i] \in IDsOf(app.nl)
              /\ \A id \in IDsOf(app.nl) \ ({app.source} \cup {app.out[j] : j \in 1..Len(app.out)}) :
                    LighterThan(app.cluster, app.nl, app.out[i], id)

\* Two targets were chosen among three candidates, past an earlier candidate of
\* higher load and ahead of a later candidate of the same load as a target.
C28_Witness ==
    /\ app.fn = "selectOptimalTargetNodes"
    /\ app.done
    /\ Len(app.nl) = 4
    /\ app.factor = 3
    /\ \E id \in IDsOf(app.nl) \ ({app.source} \cup {app.out[1], app.out[2]}) :
          /\ PosIn(app.nl, id) < PosIn(app.nl, app.out[1])
          /\ LoadTimesCache(app.cluster[id]) > LoadTimesCache(app.cluster[app.out[1]])
    /\ \E t \in {app.out[1], app.out[2]} :
          \E id \in IDsOf(app.nl) \ ({app.source} \cup {app.out[1], app.out[2]}) :
             LoadTimesCache(app.cluster[id]) = LoadTimesCache(app.cluster[t])

\* The number of records of the history that name the prefix and the target.
RecordsNaming(history, key, target) ==
    Cardinality({i \in 1..Len(history) :
                    history[i].PrefixKey = key /\ history[i].ToNode = target})

\* The replication stored at least one block on the node.
CopiedTo(id) == app.out[id].seqCounter > app.cluster[id].seqCounter

\* C29: a prefix-aware replicating migration appends exactly one record naming the
\* prefix and target T if and only if it copied at least one block to T; a target
\* to which nothing was copied gets no record, whatever was copied to the targets
\* handled before it.
C29_RecordIffCopied ==
    (app.fn = "executeHotspotMigrationWithPrediction" /\ app.done) =>
        \A id \in IDsOf(app.nl) \ {app.source} :
            RecordsNaming(app.out[app.source].metrics.MigrationHistory, app.key, id)
                = IF CopiedTo(id) THEN 1 ELSE 0

\* The same for the first target handled, and for every target when no earlier
\* target received a copy.
RecordIffCopiedFirst ==
    (app.fn = "executeHotspotMigrationWithPrediction" /\ app.done) =>
        \A id \in IDsOf(app.nl) \ {app.source} :
            (\A other \in IDsOf(app.nl) \ {id} : ~CopiedTo(other)) =>
                RecordsNaming(app.out[app.source].metrics.MigrationHistory, app.key, id)
                    = IF CopiedTo(id) THEN 1 ELSE 0

\* The stream of identical requests [0] under the cache-aware selector on four
\* nodes: the last call returned a result.
SameStreamServed ==
    /\ app.fn = "stream"
    /\ app.kind = "same"
    /\ sel.kind = "CacheAware"
    /\ Len(simNodes) = 4
    /\ last.status = "ok"
    /\ calls <= 99

\* C30: under the cache-aware selector on four nodes that start empty, every one
\* of 99 identical requests [0] is routed to the first node.
C30_AllToFirstNode == SameStreamServed => last.node = simNodes[1]

\* C30, amended: requests 1 to 11 go to the first node, the next 11 to the
\* second, then 11 to the third and 11 to the fourth, and from request 45 on the
\* four nodes take turns in list order; the first node serves 25 of the 99.
C30_FirstElevenThenSpread ==
    SameStreamServed =>
        /\ last.node = simNodes[IF calls <= 44 THEN ((calls - 1) \div 11) + 1
                                ELSE ((calls - 45) % 4) + 1]
        /\ calls = 99 => nodeStats[simNodes[1]].TotalRequests = 25

\* The 99th request has been served and the first node's queue holds 25 requests.
C30_Witness ==
    /\ SameStreamServed
    /\ calls = 99
    /\ Len(nodes[simNodes[1]].queue) = 25
    /\ 0 \in DOMAIN nodes[simNodes[2]].blocks

\* ------------------------------------------------------- properties: C31..C40

\* C31: with the enhanced selector at beta = 0 and any alpha >= 0, on a cluster
\* that starts with empty caches, every request is routed to the first node of the
\* list and every other node's cache stays empty.
C31_GreedyKeepsFirstNode ==
    (sel.kind = "Enhanced" /\ sel.Beta = Rat(0, 10) /\ last.status = "ok") =>
        /\ last.node = simNodes[1]
        /\ \A i \in 2..Len(simNodes) :
              /\ DOMAIN nodes[simNodes[i]].blocks = {}
              /\ nodes[simNodes[i]].queue = <<>>

\* Four requests were served at beta = 0 and a positive alpha, with hits and with
\* evictions on the first node.
C31_Witness ==
    /\ sel.kind = "Enhanced"
    /\ sel.Beta = Rat(0, 10)
    /\ sel.Alpha = Rat(6, 10)
    /\ calls = MaxRequests
    /\ last.status = "ok"
    /\ nodes[simNodes[1]].TotalHits > 0
    /\ Evicted(nodeStats, simNodes[1]) > 0
    /\ Len(nodes[simNodes[1]].queue) = MaxRequests

\* The largest block count of a node of the cluster, and the cluster's total.
RECURSIVE PeakBlocks(_, _)
PeakBlocks(c, ids) ==
    IF ids = {} THEN 0
    ELSE LET id == CHOOSE x \in ids : TRUE
             rest == PeakBlocks(c, ids \ {id})
         IN  IF Cardinality(DOMAIN c[id].blocks) > rest
             THEN Cardinality(DOMAIN c[id].blocks) ELSE rest

RECURSIVE AllBlocks(_, _)
AllBlocks(c, ids) ==
    IF ids = {} THEN 0
    ELSE LET id == CHOOSE x \in ids : TRUE
         IN  Cardinality(DOMAIN c[id].blocks) + AllBlocks(c, ids \ {id})

\* The peak per-node concentration of cluster a is at most that of cluster b.
PeakAtMost(a, b) ==
    PeakBlocks(a, DOMAIN a) * AllBlocks(b, DOMAIN b)
        <= PeakBlocks(b, DOMAIN b) * AllBlocks(a, DOMAIN a)

\* C32: for the same alpha, initial cluster and request sequence, the run with the
\* larger beta ends with a peak per-node concentration no higher than the run
\* with the smaller beta.
C32_BetaNeverRaisesPeak ==
    (app.fn = "paired" /\ app.served > 0) => PeakAtMost(app.high, app.low)

\* C32, amended: the run with beta = 0 ends with every block on one node, a peak
\* per-node concentration of 1, and the run with any larger beta, for the same
\* alpha, initial cluster and request sequence, ends with a peak no higher.
C32_BetaZeroIsHighestPeak ==
    (app.fn = "paired" /\ app.served > 0 /\ app.eLow.Beta = Rat(0, 10))
        => /\ PeakBlocks(app.low, DOMAIN app.low) = AllBlocks(app.low, DOMAIN app.low)
           /\ PeakAtMost(app.high, app.low)

\* Paired runs from beta = 0 where the larger beta ended with a strictly lower peak.
C32_Witness ==
    /\ app.fn = "paired"
    /\ app.served = MaxPaired
    /\ app.eLow.Beta = Rat(0, 10)
    /\ app.eHigh.Beta = Rat(20, 10)
    /\ ~PeakAtMost(app.low, app.high)

\* C33: as long as the use is well formed (adds of untracked IDs, accesses of
\* tracked IDs, evicted IDs removed from the shared block map), each Evict
\* returns the same block ID from LRUEviction and from DebugLRUEviction.
C33_SameEvictions ==
    (app.fn = "compare" /\ app.op = "evict" /\ app.wellFormed)
        => app.standardEvict = app.debugEvict

\* Both policies evicted the same block after an access had reordered three of them.
C33_Witness ==
    /\ app.fn = "compare"
    /\ app.op = "evict"
    /\ app.wellFormed
    /\ app.ops = MaxCompare
    /\ app.standardEvict = app.debugEvict
    /\ app.standardEvict # Absent
    /\ \E id \in DOMAIN app.blocks : app.blocks[id].HitCount > 0
    /\ Len(app.debugBefore.accessOrder) = 3
    /\ app.standardEvict # 0

StaleOf(d, blocks) == {id \in d.orderNodes : id \notin blocks}

\* C34: DebugLRUEviction.Evict returns only IDs of the block map it was given;
\* the stale tails it meets leave accessOrder and orderNodes; and it returns -1
\* only when none of the IDs it tracked is in the block map.
C34_StaleEntriesDropped ==
    (app.fn = "compare" /\ app.op = "evict")
        => /\ app.debugEvict # Absent => app.debugEvict \in app.blocksBefore
           /\ \A i \in 1..Len(app.dropped) :
                 /\ app.dropped[i] \in StaleOf(app.debugBefore, app.blocksBefore)
                 /\ app.dropped[i] \notin app.debugLRU.orderNodes
                 /\ \A j \in 1..Len(app.debugLRU.accessOrder) :
                       app.debugLRU.accessOrder[j] # app.dropped[i]
           /\ app.debugEvict = Absent
                 => app.debugBefore.orderNodes \cap app.blocksBefore = {}
           /\ Len(app.debugLRU.accessOrder) + Len(app.dropped)
                 + (IF app.debugEvict = Absent THEN 0 ELSE 1)
                 = Len(app.debugBefore.accessOrder)

\* An Evict that dropped a stale tail and then returned a block of the block map.
C34_Witness ==
    /\ app.fn = "compare"
    /\ app.op = "evict"
    /\ Len(app.dropped) > 0
    /\ app.debugEvict # Absent
    /\ app.debugEvict \in app.blocksBefore

\* An Evict that found only stale entries and returned -1.
C34_WitnessAllStale ==
    /\ app.fn = "compare"
    /\ app.op = "evict"
    /\ Len(app.dropped) > 1
    /\ app.debugEvict = Absent

\* The most recent HistoryWindowSize samples of a history, in order.
Windowed(history) ==
    IF Len(history) > HistoryWindowSize
    THEN SubSeq(history, Len(history) - HistoryWindowSize + 1, Len(history))
    ELSE history

PatternsOf(c, id) == c[id].metrics.PrefixPatterns

\* C35: after every selection each PrefixPattern's hit history holds at most 20
\* samples, and a pattern's history is either what it was or what it was with
\* the pattern's hit count appended, the oldest sample dropped when 20 were held.
C35_HistoryIsRollingWindow ==
    [][\A id \in DOMAIN nodes' : \A key \in DOMAIN PatternsOf(nodes', id) :
          /\ Len(PatternsOf(nodes', id)[key].HitHistory) <= HistoryWindowSize
          /\ (id \in DOMAIN nodes /\ key \in DOMAIN PatternsOf(nodes, id))
                => \/ PatternsOf(nodes', id)[key].HitHistory
                         = PatternsOf(nodes, id)[key].HitHistory
                   \/ PatternsOf(nodes', id)[key].HitHistory
                         = Windowed(Append(PatternsOf(nodes, id)[key].HitHistory,
                                           PatternsOf(nodes, id)[key].HitCount))]_vars

\* A pattern whose history is full and has already lost its first samples.
C35_Witness ==
    \E id \in DOMAIN nodes : \E key \in DOMAIN PatternsOf(nodes, id) :
        /\ Len(PatternsOf(nodes, id)[key].HitHistory) = HistoryWindowSize
        /\ PatternsOf(nodes, id)[key].HitHistory[1] > 1

\* The selectors the claims name as performing no migration.
NonMigratingKinds == {"Random", "CacheAware", "Enhanced"}

\* C36: under a selector that performs no migration, after every ProcessRequest
\* call and for each policy, every node's policy structures hold exactly the
\* keys of the node's block map, each ID once.
C36_PolicyMirrorsWithoutMigration ==
    sel.kind \in NonMigratingKinds => \A id \in DOMAIN nodes : Mirrors(nodes[id])

\* A call under a non-migrating selector that evicted a block and admitted
\* another: the policy and the block map changed together.
C36_Witness ==
    /\ sel.kind \in NonMigratingKinds
    /\ last.status = "ok"
    /\ last.CacheMisses > 0
    /\ Evicted(nodeStats, last.node) > last.pre.evicted
    /\ Cardinality(Cached(nodes[last.node])) > 1
    /\ Mirrors(nodes[last.node])

\* C37: under a selector that performs no migration, after every ProcessRequest
\* call each node's used memory is its number of resident blocks times the
\* memory of one block, and its number of resident blocks is its misses minus
\* its evicted-blocks counter.
C37_MemoryAccountingExact ==
    sel.kind \in NonMigratingKinds =>
        \A id \in DOMAIN nodes :
            /\ nodes[id].used = Cardinality(Cached(nodes[id]))
            /\ Cardinality(Cached(nodes[id]))
                  = nodes[id].TotalMisses - Evicted(nodeStats, id)

\* A node under a non-migrating selector that has missed, evicted and kept
\* blocks, and is full to the last unit.
C37_Witness ==
    /\ sel.kind \in NonMigratingKinds
    /\ \E id \in DOMAIN nodes :
          /\ Evicted(nodeStats, id) > 0
          /\ nodes[id].TotalMisses > Evicted(nodeStats, id) + 1
          /\ nodes[id].used = Cardinality(Cached(nodes[id]))
          /\ nodes[id].used = MemUnits(nodes[id])

\* The IDs a policy tracks: the entries of LFU's blockFreq, the values of the
\* list of FIFO and LRU.
TrackedIDs(p) == IF p.kind = "LFU" THEN DOMAIN p.blockFreq ELSE ListIDs(p.order)

\* C38: for each of FIFO, LRU and LFU, an Evict on a policy that tracks at least
\* one block returns a tracked ID and never -1, whatever the frequencies of the
\* tracked blocks are.
C38_EvictFindsTrackedBlock ==
    [][(hlast'.op = "evict" /\ ho'.ops = ho.ops + 1 /\ TrackedIDs(hp) # {})
          => hlast'.ret \in TrackedIDs(hp)]_vars

\* The same where no OnAdd named a block the driver already held.
EvictFindsTrackedBlockFreshAdds ==
    [][(hlast'.op = "evict" /\ ho'.ops = ho.ops + 1 /\ TrackedIDs(hp) # {} /\ ~ho.readded)
          => hlast'.ret \in TrackedIDs(hp)]_vars

\* The same for the policies that keep no frequencies.
EvictFindsTrackedBlockListPolicies ==
    [][(hlast'.op = "evict" /\ ho'.ops = ho.ops + 1 /\ TrackedIDs(hp) # {}
          /\ hp.kind \in {"FIFO", "LRU"})
          => hlast'.ret \in TrackedIDs(hp)]_vars

\* Evictions counted by the call just made, and blocks the call removed from the
\* selected node's map: the map had last.pre.keys when the block loop began and
\* every miss added one key.
EvictionsCounted == Evicted(nodeStats, last.node) - last.pre.evicted

BlocksRemoved ==
    Cardinality(last.pre.keys) + last.CacheMisses - Cardinality(Cached(nodes[last.node]))

\* C39: for every selector and policy, every victim ID the reclaim loop obtains
\* is in the selected node's block map, so the evictions a call counts are the
\* blocks it removed from the map.
C39_NoPhantomEvictions == last.status = "ok" => EvictionsCounted = BlocksRemoved

\* The same under the selectors that leave the block maps alone.
NoPhantomEvictionsPlain ==
    (last.status = "ok" /\ sel.kind \in PlainKinds) => EvictionsCounted = BlocksRemoved

BlockCount(node) == Cardinality(Cached(node))

\* C40: a prefix-aware replication copies into a target only while the target
\* holds fewer than MaxCacheSize blocks: a target at or above MaxCacheSize is
\* left as it was, a target within MaxCacheSize stays within it, and no target
\* loses a block.
C40_ReplicationWithinCapacity ==
    (app.fn = "executeHotspotMigrationWithPrediction" /\ app.done) =>
        \A id \in IDsOf(app.nl) \ {app.source} :
            /\ Cached(app.cluster[id]) \subseteq Cached(app.out[id])
            /\ BlockCount(app.cluster[id]) >= app.cluster[id].MaxCacheSize
                  => /\ app.out[id].blocks = app.cluster[id].blocks
                     /\ ~CopiedTo(id)
            /\ BlockCount(app.cluster[id]) <= app.cluster[id].MaxCacheSize
                  => BlockCount(app.out[id]) <= app.cluster[id].MaxCacheSize
            /\ BlockCount(app.out[id]) > BlockCount(app.cluster[id])
                  => BlockCount(app.out[id]) <= app.cluster[id].MaxCacheSize

\* A replication that filled one target to MaxCacheSize with a block still to
\* copy, and left a target that was already full as it was.
C40_Witness ==
    /\ app.fn = "executeHotspotMigrationWithPrediction"
    /\ app.done
    /\ Cached(app.cluster[app.source]) = {0, 1}
    /\ \E id \in IDsOf(app.nl) \ {app.source} :
          /\ BlockCount(app.cluster[id]) < app.cluster[id].MaxCacheSize
          /\ BlockCount(app.out[id]) = app.cluster[id].MaxCacheSize
          /\ ~(Cached(app.cluster[app.source]) \subseteq Cached(app.out[id]))
    /\ \E id \in IDsOf(app.nl) \ {app.source} :
          /\ BlockCount(app.cluster[id]) = app.cluster[id].MaxCacheSize
          /\ ~(Cached(app.cluster[app.source]) \subseteq Cached(app.cluster[id]))
          /\ app.out[id].blocks = app.cluster[id].blocks

====
